---- MODULE Spec2Model ----
(***************************************************************************)
(* A model of brainrot's YouTube live-chat adapter: the GCM signaling      *)
(* session (src/src/youtube/signaler.rs), the task that consumes the       *)
(* hanging GET, and the stream that combines notifications with chat       *)
(* fetches.                                                                *)
(***************************************************************************)
EXTENDS Integers, Sequences, FiniteSets, TLC

(***************************************************************************)
(* Bounds of the model.                                                    *)
(***************************************************************************)
\* largest acknowledgement id a server chunk carries
MaxAid == 2
\* notifications queued in the broadcast channel before the sender is held
MaxPending == 2

(***************************************************************************)
(* Value domains.                                                          *)
(***************************************************************************)
None == "None"
Topics == {"t1", "t2"}
GSessions == {"g1", "g2"}
Sids == {"s1", "s2"}

(***************************************************************************)
(* JSON values as simd_json::OwnedValue, reduced to what the code reads:   *)
(* numbers, strings and arrays.  NotJson is a line simd_json::from_str     *)
(* rejects; Undef is what a failed navigation (a None that the code        *)
(* unwraps, or an index out of bounds) leaves.                             *)
(***************************************************************************)
Num(n) == [t |-> "num", n |-> n]
Str(s) == [t |-> "str", s |-> s]
Arr(a) == [t |-> "arr", a |-> a]
NotJson == [t |-> "notjson"]
Undef == [t |-> "undef"]

\* v.as_array().unwrap()[i], zero-based like the Rust index
Idx(v, i) ==
    IF v.t = "arr" /\ i >= 0 /\ i < Len(v.a) THEN v.a[i + 1] ELSE Undef

\* a[a.len() - 1] for a = v.as_array().unwrap()
LastOf(v) ==
    IF v.t = "arr" /\ Len(v.a) > 0 THEN v.a[Len(v.a)] ELSE Undef

\* s.lines().nth(1): the second line of a body, a body being its lines
SecondLine(body) == IF Len(body) >= 2 THEN body[2] ELSE Undef

(***************************************************************************)
(* SignalerChannelInner and its methods.  A method that awaits an HTTP     *)
(* response is split at the await: the part that builds the request and    *)
(* the part that consumes the response.  A result is "ok", "err" (an Err   *)
(* returned through ?) or "panic" (an unwrap or assert that fails).        *)
(***************************************************************************)
with_topic(topic) ==
    [topic |-> topic, gsessionid |-> None, sid |-> None,
     rid |-> 0, aid |-> 0, session_n |-> 0]

\* reset that keeps the acknowledged id
reset_keeps_aid(s) ==
    [s EXCEPT !.gsessionid = None, !.sid = None, !.rid = 0, !.session_n = 0]

reset_drops_session_n(s) ==
    [s EXCEPT !.gsessionid = None, !.sid = None, !.rid = 0, !.aid = 0]

reset(s) ==
    [s EXCEPT !.gsessionid = None, !.sid = None, !.rid = 0, !.aid = 0,
              !.session_n = 0]

NoReq == [kind |-> "none"]
TransportError == [http |-> "fail"]
HttpOk(body) == [http |-> "ok", body |-> body]

\* the POST of choose_server: its body carries self.topic
choose_server_request(s) == [kind |-> "choose_server", topic |-> s.topic]

\* choose_server after the awaits: the response is one JSON value
choose_server(s, resp) ==
    IF resp.http = "fail" \/ resp.body = NotJson
    THEN [s |-> s, res |-> "err"]
    ELSE LET gsess == Idx(resp.body, 0)
         IN IF gsess.t = "str"
            THEN [s |-> [s EXCEPT !.gsessionid = gsess.s], res |-> "ok"]
            ELSE [s |-> s, res |-> "panic"]

\* init_session up to the await: session_n is set before the URL is built,
\* and building the URL unwraps gsessionid
init_session_begin(s) ==
    LET s1 == [s EXCEPT !.session_n = 1]
    IN IF s.gsessionid = None
       THEN [s |-> s1, res |-> "panic", req |-> NoReq]
       ELSE [s |-> s1, res |-> "ok",
             req |-> [kind |-> "init_session", gsessionid |-> s.gsessionid,
                      RID |-> s.rid, AID |-> s.aid, topic |-> s.topic]]

init_session_sid_wrong_index(line) == Idx(Idx(Idx(line, 0), 1), 0)

\* value[1].as_array().unwrap()[1] of value = line.as_array().unwrap()[0]
init_session_sid(line) == Idx(Idx(Idx(line, 0), 1), 1)

\* init_session after the awaits: the response body is a sequence of lines
init_session_end(s, resp) ==
    IF resp.http = "fail"
    THEN [s |-> s, res |-> "err"]
    ELSE LET line == SecondLine(resp.body)
             value == Idx(line, 0)
             sid == init_session_sid(line)
         IN IF line = Undef THEN [s |-> s, res |-> "panic"]
            ELSE IF line = NotJson THEN [s |-> s, res |-> "err"]
            ELSE IF value.t # "arr" THEN [s |-> s, res |-> "panic"]
            ELSE IF Idx(value, 0).t # "num" THEN [s |-> s, res |-> "panic"]
            ELSE IF Idx(value, 0).n # 0 THEN [s |-> s, res |-> "panic"]
            ELSE IF sid.t # "str" THEN [s |-> s, res |-> "panic"]
            ELSE [s |-> [s EXCEPT !.sid = sid.s], res |-> "ok"]

\* get_session_stream up to the await: the GET unwraps gsessionid and sid
get_session_stream(s) ==
    IF s.gsessionid = None \/ s.sid = None
    THEN [res |-> "panic", req |-> NoReq]
    ELSE [res |-> "ok",
          req |-> [kind |-> "subscribe", gsessionid |-> s.gsessionid,
                   SID |-> s.sid, AID |-> s.aid]]

\* refresh_topic that starts the session over
refresh_topic_resets(s, topic) == [reset(s) EXCEPT !.topic = topic]

\* refresh_topic, with the lock taken
refresh_topic(s, topic) == [s EXCEPT !.topic = topic]

\* What the subscriber task does with one chunk of the hanging GET before
\* it notifies: "set" stores a new aid, "keep" leaves aid alone (the second
\* line is no JSON), "panic" is an unwrap that fails.
chunk_aid(chunk) ==
    LET line == SecondLine(chunk)
        n == Idx(LastOf(line), 0)
    IN IF line = Undef THEN [res |-> "panic"]
       ELSE IF line = NotJson THEN [res |-> "keep"]
       ELSE IF n.t = "num" THEN [res |-> "set", aid |-> n.n]
       ELSE [res |-> "panic"]

(***************************************************************************)
(* What the servers may answer.                                            *)
(***************************************************************************)
GoodChooseBody(g) == Arr(<<Str(g), Num(3)>>)
GoodChooseResponses == {HttpOk(GoodChooseBody(g)) : g \in GSessions}
BadChooseResponses ==
    {TransportError, HttpOk(NotJson), HttpOk(Arr(<<>>)), HttpOk(Num(1))}
ChooseResponses == GoodChooseResponses \cup BadChooseResponses

\* first line of a webchannel frame: the length prefix
LenLine == Num(51)
GoodInitBody(sid) ==
    <<LenLine, Arr(<<Arr(<<Num(0), Arr(<<Str("c"), Str(sid)>>)>>)>>)>>
GoodInitResponses == {HttpOk(GoodInitBody(sid)) : sid \in Sids}
BadInitResponses ==
    {TransportError,
     HttpOk(<<LenLine>>),
     HttpOk(<<LenLine, NotJson>>),
     HttpOk(<<LenLine, Arr(<<Arr(<<Num(1), Arr(<<Str("c"), Str("s1")>>)>>)>>)>>),
     HttpOk(<<LenLine, Arr(<<Arr(<<Num(0)>>)>>)>>)}
InitResponses == GoodInitResponses \cup BadInitResponses

GoodChunk(n) == <<LenLine, Arr(<<Arr(<<Num(n - 1), Str("noop")>>), Arr(<<Num(n), Str("inv")>>)>>)>>
GoodChunks == {GoodChunk(n) : n \in 1..MaxAid}
UnparsedChunk == <<LenLine, NotJson>>
BadChunks == {<<LenLine>>, <<LenLine, Arr(<<>>)>>, <<LenLine, Num(7)>>}
Chunks == GoodChunks \cup {UnparsedChunk} \cup BadChunks

(***************************************************************************)
(* State.                                                                  *)
(***************************************************************************)
VARIABLES
    inner,        \* the SignalerChannelInner behind Arc<Mutex<..>>
    lock,         \* who holds the tokio Mutex: "free", "caller" or "task"
    http,         \* the signaling request awaited, or the open hanging GET
    taskpc,       \* where the spawned subscriber task is
    opc,          \* where the stream (the caller of the signaler) is
    receiver,     \* the broadcast::Receiver: "none", "alive" or "dropped"
    pending,      \* notifications queued for the receiver
    last,         \* the signaling operation that ran last (history)
    sinceEnd,     \* the task's operations since the hanging GET last ended
    rotation,     \* what the task's current rotation sent and stored (history)
    ended,        \* how the hanging GET last ended: "never", "eof", "read_error"
    live_status,  \* ChatContext::live_status
    first_cont,   \* variant of the first continuation of the initial fetch
    fetched,      \* the chunks fetched so far, in fetch order (history)
    emitted,      \* the actions the stream has yielded so far
    yielded,      \* how many of the fetched chunks have been yielded
    seen,         \* the stream's set of ids already yielded
    next_topic,   \* the topic of the chunk fetched last
    last_fetch,   \* what the chat fetch made last returned (history)
    result,       \* how the stream stands: "running", "ended", "error", ...
    multicast,    \* the Multicast: its sub-streams and its last poll (history)
    twitch,       \* the Twitch Chat: its IRC stream and its last poll (history)
    lookup,       \* the last channel lookup of the ChatContext (history)
    processor,    \* the chat page fetched last and its YouTubeChatPageProcessor
    applied,      \* the last conversion of a value of a chat page (history)
    requests,     \* the signaling requests built so far, with their query
    classified    \* the last error converted or judged by youtube::Error (history)

\* what no step of the YouTube adapter changes
\* what only the steps of the chat page, of its values, of the request
\* builders and of the error type change
extras == <<processor, applied, requests, classified>>

fixed == <<live_status, multicast, twitch, lookup, extras>>

sigvars == <<inner, lock, http, taskpc, receiver, pending, last, sinceEnd, rotation, ended>>
strvars == <<fixed, first_cont, fetched, emitted, yielded, seen, next_topic,
             last_fetch, result>>
vars == <<inner, lock, http, taskpc, opc, receiver, pending, last, sinceEnd, rotation,
          ended, live_status, first_cont, fetched, emitted, yielded, seen,
          next_topic, last_fetch, result, multicast, twitch, lookup, processor,
          applied, requests, classified>>

Last(by, op, res, inp, pre, sent) ==
    [by |-> by, op |-> op, res |-> res, inp |-> inp, pre |-> pre, sent |-> sent]

NoLast == Last("none", "none", "ok", None, with_topic("t1"), 0)

\* the handshake of one rotation: the topic in the body of its choose-server
\* POST, the gsessionid choose_server stored, the topic and the gsessionid
\* of its init-session POST, the sid init_session stored; and, until its
\* hanging GET opens, whether the session before its reset had acknowledged
\* a chunk and whether the rotation before it had sent another topic
Rotation(after_ack, after_refresh, choose_topic, gsessionid, init_topic, init_gsessionid, sid) ==
    [after_ack |-> after_ack, after_refresh |-> after_refresh,
     choose_topic |-> choose_topic, gsessionid |-> gsessionid, init_topic |-> init_topic,
     init_gsessionid |-> init_gsessionid, sid |-> sid]

NoRotation == Rotation(FALSE, FALSE, None, None, None, None, None)

\* the record of a rotation that starts by sending topic to choose-server
NextRotation(topic) ==
    Rotation(inner.aid > 0, rotation.choose_topic \notin {None, topic}, topic,
             None, None, None, None)

\* an HTTP request whose response the code is awaiting
InFlight == http.kind \in {"choose_server", "init_session", "subscribe"}

\* the hanging GET once its response has arrived and chunks are being read
OpenStream(req) == [req EXCEPT !.kind = "stream"]

(***************************************************************************)
(* The subscriber task: the async block of spawn_event_subscriber.         *)
(***************************************************************************)
\* what a failed unwrap or assert does to the task: it unwinds, the guard
\* and the sender are dropped
TaskPanics(s, op, res, inp) ==
    /\ taskpc' = "panicked"
    /\ lock' = "free"
    /\ http' = NoReq
    /\ inner' = s
    /\ last' = Last("task", op, res, inp, inner, 0)
    /\ UNCHANGED <<receiver, pending, sinceEnd, rotation, ended>>

TaskRotate_without_reset ==
    /\ taskpc = "rotate"
    /\ UNCHANGED <<opc, strvars>>
    /\ lock = "free"
    /\ receiver = "alive" => pending < MaxPending
    /\ lock' = "task"
    /\ pending' = IF receiver = "alive" THEN pending + 1 ELSE pending
    /\ inner' = inner
    /\ http' = choose_server_request(inner)
    /\ taskpc' = "choose"
    /\ sinceEnd' = sinceEnd
    /\ rotation' = NextRotation(inner.topic)
    /\ last' = Last("task", "reset", "ok", None, inner,
                    IF receiver = "alive" THEN 1 ELSE 0)
    /\ UNCHANGED <<receiver, ended>>

\* a rotation that starts without sender.send(())
TaskRotate_without_send ==
    /\ taskpc = "rotate"
    /\ UNCHANGED <<opc, strvars>>
    /\ lock = "free"
    /\ lock' = "task"
    /\ pending' = pending
    /\ inner' = reset(inner)
    /\ http' = choose_server_request(reset(inner))
    /\ taskpc' = "choose"
    /\ sinceEnd' = Append(sinceEnd, "reset")
    /\ rotation' = NextRotation(reset(inner).topic)
    /\ last' = Last("task", "reset", "ok", None, inner, 0)
    /\ UNCHANGED <<receiver, ended>>

\* a rotation that gives the guard back before its first request
TaskRotate_without_lock ==
    /\ taskpc = "rotate"
    /\ UNCHANGED <<opc, strvars>>
    /\ lock = "free"
    /\ receiver = "alive" => pending < MaxPending
    /\ lock' = "free"
    /\ pending' = IF receiver = "alive" THEN pending + 1 ELSE pending
    /\ inner' = reset(inner)
    /\ http' = choose_server_request(reset(inner))
    /\ taskpc' = "choose"
    /\ sinceEnd' = Append(sinceEnd, "reset")
    /\ rotation' = NextRotation(reset(inner).topic)
    /\ last' = Last("task", "reset", "ok", None, inner,
                    IF receiver = "alive" THEN 1 ELSE 0)
    /\ UNCHANGED <<receiver, ended>>

\* top of the outer loop: lock, send(()), reset, start choose_server
TaskRotate ==
    /\ taskpc = "rotate"
    /\ UNCHANGED <<opc, strvars>>
    /\ lock = "free"
    /\ receiver = "alive" => pending < MaxPending
    /\ lock' = "task"
    /\ pending' = IF receiver = "alive" THEN pending + 1 ELSE pending
    /\ inner' = reset(inner)
    /\ http' = choose_server_request(reset(inner))
    /\ taskpc' = "choose"
    /\ sinceEnd' = Append(sinceEnd, "reset")
    /\ rotation' = NextRotation(reset(inner).topic)
    /\ last' = Last("task", "reset", "ok", None, inner,
                    IF receiver = "alive" THEN 1 ELSE 0)
    /\ UNCHANGED <<receiver, ended>>

\* choose_server().await.unwrap(), then init_session up to its await
TaskChooseResp(R) ==
    /\ taskpc = "choose"
    /\ UNCHANGED <<opc, strvars>>
    /\ \E resp \in R :
        LET r == choose_server(inner, resp)
            b == init_session_begin(r.s)
        IN IF r.res = "ok" /\ b.res = "ok"
           THEN /\ inner' = b.s
                /\ http' = b.req
                /\ taskpc' = "init"
                /\ sinceEnd' = Append(sinceEnd, "choose_server")
                /\ rotation' = [rotation EXCEPT !.gsessionid = r.s.gsessionid,
                                                !.init_topic = b.req.topic,
                                                !.init_gsessionid = b.req.gsessionid]
                /\ last' = Last("task", "choose_server", "ok", resp, inner, 0)
                /\ UNCHANGED <<lock, receiver, pending, ended>>
           ELSE TaskPanics(r.s, "choose_server", r.res, resp)

\* init_session().await.unwrap(), then get_session_stream up to its await
TaskInitResp(R) ==
    /\ taskpc = "init"
    /\ UNCHANGED <<opc, strvars>>
    /\ \E resp \in R :
        LET r == init_session_end(inner, resp)
            g == get_session_stream(r.s)
        IN IF r.res = "ok" /\ g.res = "ok"
           THEN /\ inner' = r.s
                /\ http' = g.req
                /\ taskpc' = "subscribe"
                /\ sinceEnd' = Append(sinceEnd, "init_session")
                /\ rotation' = [rotation EXCEPT !.sid = r.s.sid]
                /\ last' = Last("task", "init_session", "ok", resp, inner, 0)
                /\ UNCHANGED <<lock, receiver, pending, ended>>
           ELSE TaskPanics(r.s, "init_session", r.res, resp)

\* get_session_stream().await.unwrap(): the guard is dropped at the end of
\* the block, once the response of the GET is there
TaskSubscribeResp(R) ==
    /\ taskpc = "subscribe"
    /\ UNCHANGED <<opc, strvars>>
    /\ \E ok \in R :
        IF ok
        THEN /\ taskpc' = "reading"
             /\ lock' = "free"
             /\ http' = OpenStream(http)
             /\ sinceEnd' = Append(sinceEnd, "subscribe")
             /\ rotation' = [rotation EXCEPT !.after_ack = FALSE, !.after_refresh = FALSE]
             /\ last' = Last("task", "subscribe", "ok", None, inner, 0)
             /\ UNCHANGED <<inner, receiver, pending, ended>>
        ELSE TaskPanics(inner, "subscribe", "err", None)

\* Ok(Some(s)): one chunk of the hanging GET
TaskChunk(C) ==
    /\ taskpc = "reading"
    /\ UNCHANGED <<opc, strvars>>
    /\ \E chunk \in C :
        LET r == chunk_aid(chunk)
        IN IF r.res = "panic"
           THEN TaskPanics(inner, "chunk", "panic", chunk)
           ELSE /\ r.res = "set" => lock = "free"
                /\ receiver = "alive" => pending < MaxPending
                /\ inner' = IF r.res = "set" THEN [inner EXCEPT !.aid = r.aid]
                                             ELSE inner
                /\ IF receiver = "alive"
                   THEN /\ pending' = pending + 1
                        /\ taskpc' = "reading"
                        /\ http' = http
                   ELSE /\ pending' = pending
                        /\ taskpc' = "done"
                        /\ http' = NoReq
                /\ last' = Last("task", "chunk", "ok", chunk, inner, 1)
                /\ UNCHANGED <<lock, receiver, sinceEnd, rotation, ended>>

\* Ok(None): the server closed the hanging GET
TaskEOF ==
    /\ taskpc = "reading"
    /\ UNCHANGED <<opc, strvars>>
    /\ taskpc' = "rotate"
    /\ http' = NoReq
    /\ sinceEnd' = << >>
    /\ UNCHANGED rotation
    /\ ended' = "eof"
    /\ last' = Last("task", "eof", "ok", None, inner, 0)
    /\ UNCHANGED <<inner, lock, receiver, pending>>

\* Err(e): reading the hanging GET failed
TaskReadError ==
    /\ taskpc = "reading"
    /\ UNCHANGED <<opc, strvars>>
    /\ taskpc' = "rotate"
    /\ http' = NoReq
    /\ sinceEnd' = << >>
    /\ UNCHANGED rotation
    /\ ended' = "read_error"
    /\ last' = Last("task", "read_error", "ok", None, inner, 0)
    /\ UNCHANGED <<inner, lock, receiver, pending>>

(***************************************************************************)
(* spawn_event_subscriber up to tokio::spawn, run by the stream.           *)
(***************************************************************************)
\* how spawn_event_subscriber leaves when a handshake step fails: ? returns
\* the Err, a failed unwrap or assert unwinds the caller
SpawnFails(s, op, res, inp) ==
    /\ opc' = "done"
    /\ result' = IF res = "err" THEN "error" ELSE "panicked"
    /\ lock' = "free"
    /\ http' = NoReq
    /\ inner' = s
    /\ last' = Last("caller", op, res, inp, inner, 0)
    /\ UNCHANGED <<taskpc, receiver, pending, sinceEnd, rotation, ended>>

SpawnLock ==
    /\ opc = "spawn"
    /\ lock = "free"
    /\ lock' = "caller"
    /\ http' = choose_server_request(inner)
    /\ opc' = "spawn_choose"
    /\ UNCHANGED <<inner, taskpc, receiver, pending, last, sinceEnd, rotation, ended>>
    /\ UNCHANGED strvars

SpawnChooseResp(R) ==
    /\ opc = "spawn_choose"
    /\ \E resp \in R :
        LET r == choose_server(inner, resp)
            b == init_session_begin(r.s)
        IN IF r.res = "ok" /\ b.res = "ok"
           THEN /\ inner' = b.s
                /\ http' = b.req
                /\ opc' = "spawn_init"
                /\ last' = Last("caller", "choose_server", "ok", resp, inner, 0)
                /\ UNCHANGED <<lock, taskpc, receiver, pending, sinceEnd, rotation,
                               ended, result>>
           ELSE SpawnFails(r.s, "choose_server", r.res, resp)
    /\ UNCHANGED <<fixed, first_cont, fetched, emitted, yielded, seen,
                   next_topic, last_fetch>>

\* the end of the handshake block, broadcast::channel(128) and tokio::spawn
SpawnInitResp(R) ==
    /\ opc = "spawn_init"
    /\ \E resp \in R :
        LET r == init_session_end(inner, resp)
        IN IF r.res = "ok"
           THEN /\ inner' = r.s
                /\ http' = NoReq
                /\ lock' = "free"
                /\ receiver' = "alive"
                /\ taskpc' = "rotate"
                /\ opc' = "emit_initial"
                /\ last' = Last("caller", "init_session", "ok", resp, inner, 0)
                /\ UNCHANGED <<pending, sinceEnd, rotation, ended, result>>
           ELSE SpawnFails(r.s, "init_session", r.res, resp)
    /\ UNCHANGED <<fixed, first_cont, fetched, emitted, yielded, seen,
                   next_topic, last_fetch>>

(***************************************************************************)
(* Chat items and actions (src/src/youtube/types/get_live_chat.rs).        *)
(***************************************************************************)
TextMessage(id, author) ==
    [variant |-> "TextMessage",
     message_renderer_base |-> [id |-> id, author_external_channel_id |-> author]]
MembershipGift(id) == [variant |-> "MembershipGift", id |-> id]

ChatItem_id_reads_author(item) ==
    IF item.variant \in {"MembershipItem", "PaidSticker", "Superchat", "TextMessage"}
    THEN item.message_renderer_base.author_external_channel_id
    ELSE item.id

\* ChatItem::id
ChatItem_id(item) ==
    IF item.variant \in {"MembershipItem", "PaidSticker", "Superchat", "TextMessage"}
    THEN item.message_renderer_base.id
    ELSE item.id

AddChatItem(item) == [kind |-> "AddChatItem", item |-> item]
RemoveChatItem(target) == [kind |-> "RemoveChatItem", target_item_id |-> target]
ReplayChat(actions) == [kind |-> "ReplayChat", actions |-> actions]

ItemA == TextMessage("A", "u1")
ItemB == TextMessage("B", "u1")
ItemC == MembershipGift("C")
ItemD == TextMessage("D", "u2")

\* scenario S5 of the specification: [A, B], then [B, C, D]
S5First == <<AddChatItem(ItemA), AddChatItem(ItemB)>>
S5Second == <<AddChatItem(ItemB), AddChatItem(ItemC), AddChatItem(ItemD)>>

ReplayWrapper == ReplayChat(<<RemoveChatItem("B"), AddChatItem(ItemA)>>)

\* the lists of actions a chat response is drawn from: repeats within and
\* across chunks, other kinds before and after an item, replay wrappers
ChunkPool ==
    {<< >>,
     <<AddChatItem(ItemA)>>,
     <<AddChatItem(ItemC)>>,
     S5First,
     S5Second,
     <<AddChatItem(ItemB), AddChatItem(ItemA)>>,
     <<AddChatItem(ItemA), AddChatItem(ItemA)>>,
     <<RemoveChatItem("A"), AddChatItem(ItemA)>>,
     <<AddChatItem(ItemB), RemoveChatItem("A")>>,
     <<ReplayWrapper>>,
     <<ReplayWrapper, AddChatItem(ItemB)>>}
SmallPool == {<<AddChatItem(ItemA)>>}

\* chat fetches of one stream, the initial one included
MaxFetches == 2

FetchError == [fetch |-> "error"]
Variants == {"Invalidation", "Timed", "Replay", "PlayerSeek"}
\* a GetLiveChatResponse: the variant of its first continuation, the topic
\* of an Invalidation continuation, and its optional list of actions
ChatResponses(P, T) ==
    {[fetch |-> "ok", cont |-> v, topic |-> t, has_actions |-> TRUE, actions |-> a] :
        v \in Variants, t \in T, a \in P}
    \cup {[fetch |-> "ok", cont |-> v, topic |-> "t1", has_actions |-> FALSE,
           actions |-> << >>] : v \in Variants}
    \cup {FetchError}

updates_live_matches_replay(status) == status \in {"Upcoming", "Live", "Replay"}

\* LiveStreamStatus::updates_live
updates_live(status) == status \in {"Upcoming", "Live"}

IsAddChatItem(a) == a.kind = "AddChatItem"

RECURSIVE SpliceReplay(_)
\* in a replay context, the nested actions of each ReplayChat are spliced in
SpliceReplay(actions) ==
    IF actions = << >> THEN << >>
    ELSE LET a == Head(actions)
         IN (IF a.kind = "ReplayChat" THEN a.actions ELSE <<a>>)
            \o SpliceReplay(Tail(actions))

Continuable_takes_player_seek(resp) ==
    resp.fetch = "ok" /\ resp.has_actions

\* ActionChunk::new: whether the response continues, and its actions
Continuable(resp) ==
    resp.fetch = "ok" /\ resp.cont # "PlayerSeek" /\ resp.has_actions

\* how a chat fetch came out: an Err, a PlayerSeek continuation, a payload
\* without actions, or a chunk
FetchOutcome(resp) ==
    IF resp.fetch = "error" THEN "error"
    ELSE IF resp.cont = "PlayerSeek" THEN "player_seek"
    ELSE IF ~resp.has_actions THEN "no_actions"
    ELSE "chunk"

ActionChunk_new(resp, status) ==
    IF updates_live(status) THEN resp.actions ELSE SpliceReplay(resp.actions)

RECURSIVE EmitDedup(_, _, _)
\* the Invalidation and Timed branches: AddChatItem only when its id is new,
\* the AddChatItem children of a ReplayChat passed through, the rest as is
EmitDedup(actions, ids, out) ==
    IF actions = << >> THEN [out |-> out, seen |-> ids]
    ELSE LET a == Head(actions)
             rest == Tail(actions)
         IN IF a.kind = "AddChatItem"
            THEN IF ChatItem_id(a.item) \in ids
                 THEN EmitDedup(rest, ids, out)
                 ELSE EmitDedup(rest, ids \cup {ChatItem_id(a.item)}, Append(out, a))
            ELSE IF a.kind = "ReplayChat"
            THEN EmitDedup(rest, ids, out \o SelectSeq(a.actions, IsAddChatItem))
            ELSE EmitDedup(rest, ids, Append(out, a))

RECURSIVE EmitAll(_)
\* the Replay branch: every action, the AddChatItem children of a ReplayChat
\* spliced through
EmitAll(actions) ==
    IF actions = << >> THEN << >>
    ELSE LET a == Head(actions)
         IN (IF a.kind = "ReplayChat" THEN SelectSeq(a.actions, IsAddChatItem)
                                      ELSE <<a>>)
            \o EmitAll(Tail(actions))

(***************************************************************************)
(* The stream: one chat fetch, a branch on the variant of its first        *)
(* continuation, then chunk after chunk.  youtube::stream and              *)
(* ActionChunk::new are not among the sources (src/multicast.rs calls the  *)
(* former); they follow section 4.4 of the specification, and the order    *)
(* of spawn, initial chunk, recv and refresh_topic that of                 *)
(* src/examples/youtube.rs.                                                *)
(***************************************************************************)
StreamStops(how) ==
    /\ opc' = "done"
    /\ result' = how
    /\ UNCHANGED <<first_cont, fetched, emitted, yielded, seen, next_topic>>

\* the initial fetch and the branch on its first continuation
StreamStart(P, T) ==
    /\ opc = "start"
    /\ UNCHANGED <<lock, http, taskpc, receiver, pending, last, sinceEnd, rotation,
                   ended, fixed>>
    /\ \E resp \in ChatResponses(P, T) :
        last_fetch' = FetchOutcome(resp) /\
        IF resp.fetch = "error" THEN StreamStops("error") /\ UNCHANGED inner
        ELSE IF ~Continuable(resp)
        THEN /\ opc' = "done"
             /\ result' = "ended"
             /\ first_cont' = resp.cont
             /\ UNCHANGED <<inner, fetched, emitted, yielded, seen, next_topic>>
        ELSE LET chunk == ActionChunk_new(resp, live_status)
             IN /\ first_cont' = resp.cont
                /\ fetched' = <<chunk>>
                /\ result' = "running"
                /\ IF resp.cont = "Invalidation"
                   THEN /\ inner' = with_topic(resp.topic)
                        /\ next_topic' = resp.topic
                        /\ opc' = "spawn"
                        /\ UNCHANGED <<emitted, yielded, seen>>
                   ELSE IF resp.cont = "Replay"
                   THEN /\ emitted' = EmitAll(chunk)
                        /\ yielded' = 1
                        /\ opc' = "replay"
                        /\ UNCHANGED <<inner, seen, next_topic>>
                   ELSE /\ emitted' = EmitDedup(chunk, {}, << >>).out
                        /\ seen' = EmitDedup(chunk, {}, << >>).seen
                        /\ yielded' = 1
                        /\ opc' = "timed"
                        /\ UNCHANGED <<inner, next_topic>>

\* the initial chunk of a live stream, once the subscriber runs
EmitInitial ==
    /\ opc = "emit_initial"
    /\ emitted' = EmitDedup(fetched[1], seen, emitted).out
    /\ seen' = EmitDedup(fetched[1], seen, emitted).seen
    /\ yielded' = 1
    /\ opc' = "waiting"
    /\ UNCHANGED <<sigvars, fixed, first_cont, fetched, next_topic,
                   last_fetch, result>>

\* receiver.recv() yields a notification: fetch the next chunk and emit it
StreamPoll(P, T) ==
    /\ opc = "waiting"
    /\ receiver = "alive"
    /\ pending > 0
    /\ pending' = pending - 1
    /\ UNCHANGED <<inner, lock, http, taskpc, last, sinceEnd, rotation, ended, fixed>>
    /\ \E resp \in {r \in ChatResponses(P, T) :
                        Continuable(r) => Len(fetched) < MaxFetches} :
        last_fetch' = FetchOutcome(resp) /\
        IF ~Continuable(resp)
        THEN /\ StreamStops(IF resp.fetch = "error" THEN "error" ELSE "ended")
             /\ receiver' = "dropped"
        ELSE LET chunk == ActionChunk_new(resp, live_status)
                 e == EmitDedup(chunk, seen, emitted)
             IN /\ fetched' = Append(fetched, chunk)
                /\ emitted' = e.out
                /\ seen' = e.seen
                /\ yielded' = yielded + 1
                /\ next_topic' = IF resp.cont = "Invalidation" THEN resp.topic
                                                               ELSE next_topic
                /\ opc' = IF resp.cont = "Invalidation" THEN "refresh" ELSE "waiting"
                /\ UNCHANGED <<receiver, first_cont, result>>

\* SignalerChannel::refresh_topic with the topic of the new chunk
StreamRefreshTopic ==
    /\ opc = "refresh"
    /\ lock = "free"
    /\ inner' = refresh_topic(inner, next_topic)
    /\ opc' = "waiting"
    /\ UNCHANGED <<lock, http, taskpc, receiver, pending, last, sinceEnd, rotation, ended>>
    /\ UNCHANGED strvars

\* receiver.recv() fails: the sender is gone and nothing is queued
StreamRecvClosed ==
    /\ opc = "waiting"
    /\ receiver = "alive"
    /\ pending = 0
    /\ taskpc \in {"done", "panicked"}
    /\ receiver' = "dropped"
    /\ StreamStops("ended")
    /\ UNCHANGED last_fetch
    /\ UNCHANGED <<inner, lock, http, taskpc, pending, last, sinceEnd, rotation, ended,
                   fixed>>

\* the consumer drops the stream, and with it the receiver
StreamDrop ==
    /\ opc \in {"emit_initial", "waiting", "refresh"}
    /\ receiver = "alive"
    /\ receiver' = "dropped"
    /\ StreamStops("cancelled")
    /\ UNCHANGED last_fetch
    /\ UNCHANGED <<inner, lock, http, taskpc, pending, last, sinceEnd, rotation, ended,
                   fixed>>

\* the Replay branch: the next chunk is requested at once
ReplayNext(P, T) ==
    /\ opc = "replay"
    /\ UNCHANGED <<sigvars, fixed>>
    /\ \E resp \in {r \in ChatResponses(P, T) :
                        Continuable(r) => Len(fetched) < MaxFetches} :
        last_fetch' = FetchOutcome(resp) /\
        IF ~Continuable(resp)
        THEN StreamStops(IF resp.fetch = "error" THEN "error" ELSE "ended")
        ELSE LET chunk == ActionChunk_new(resp, live_status)
             IN /\ fetched' = Append(fetched, chunk)
                /\ emitted' = emitted \o EmitAll(chunk)
                /\ yielded' = yielded + 1
                /\ UNCHANGED <<opc, seen, first_cont, next_topic, result>>

\* the Timed branch: sleep timeout_ms, fetch, emit with de-duplication
TimedNext(P, T) ==
    /\ opc = "timed"
    /\ UNCHANGED <<sigvars, fixed>>
    /\ \E resp \in {r \in ChatResponses(P, T) :
                        Continuable(r) => Len(fetched) < MaxFetches} :
        last_fetch' = FetchOutcome(resp) /\
        IF ~Continuable(resp)
        THEN StreamStops(IF resp.fetch = "error" THEN "error" ELSE "ended")
        ELSE LET chunk == ActionChunk_new(resp, live_status)
                 e == EmitDedup(chunk, seen, emitted)
             IN /\ fetched' = Append(fetched, chunk)
                /\ emitted' = e.out
                /\ seen' = e.seen
                /\ yielded' = yielded + 1
                /\ UNCHANGED <<opc, first_cont, next_topic, result>>

(***************************************************************************)
(* The Multicast (src/src/multicast.rs): a vector of sub-streams, each a   *)
(* Twitch Chat or a YouTube stream behind VariantStream.  A sub-stream is  *)
(* what its polls will return, in order: Pending, an item, an error, or    *)
(* Ready(None); once that is used up it returns Ready(None) for ever.  The *)
(* Stream trait leaves open what a stream returns when it is polled after  *)
(* its first Ready(None), so a script may go on after one.                 *)
(***************************************************************************)
\* sub-streams pushed to one Multicast
MaxStreams == 3
\* polls of one Multicast
MaxPolls == 3

PollPending == [poll |-> "Pending"]
ReadyNone == [poll |-> "ReadyNone"]
ReadySome(item) == [poll |-> "ReadySome", item |-> item]
Ok(v) == [ok |-> TRUE, v |-> v]
Err(e) == [ok |-> FALSE, v |-> e]

Kinds == {"Twitch", "YouTube"}
VariantChat(kind, c) == [tag |-> "VariantChat::" \o kind, v |-> c]
MulticastError(kind, e) == [tag |-> "MulticastError::" \o kind \o "Error", v |-> e]

\* what the polls of a sub-stream's inner stream return, one after another
Scripts ==
    {<< >>,
     <<PollPending>>,
     <<ReadySome(Ok("c1"))>>,
     <<ReadySome(Err("e1"))>>,
     <<PollPending, ReadySome(Ok("c2"))>>,
     <<ReadySome(Ok("c1")), ReadySome(Ok("c2"))>>,
     <<ReadySome(Ok("c1")), ReadySome(Ok("c2")), ReadySome(Ok("c3"))>>,
     <<ReadyNone, ReadySome(Ok("c3"))>>,
     <<ReadyNone, PollPending>>}

VariantStream(kind, script) == [kind |-> kind, x |-> script]

\* x.poll_next(cx) of the inner stream
Inner_poll_next(x) == IF x = << >> THEN ReadyNone ELSE Head(x)

VariantStream_poll_next_untagged(stream) ==
    LET r == Inner_poll_next(stream.x)
    IN IF r.poll = "ReadySome"
       THEN ReadySome(IF r.item.ok THEN Ok(VariantChat("YouTube", r.item.v))
                                   ELSE Err(MulticastError("YouTube", r.item.v)))
       ELSE r

\* VariantStream::poll_next: ready! passes Pending through, and the item is
\* mapped by the arm of the variant
VariantStream_poll_next(stream) ==
    LET r == Inner_poll_next(stream.x)
    IN IF r.poll = "ReadySome"
       THEN ReadySome(IF r.item.ok THEN Ok(VariantChat(stream.kind, r.item.v))
                                   ELSE Err(MulticastError(stream.kind, r.item.v)))
       ELSE r

\* the sub-stream after one poll
Polled(stream) ==
    [stream EXCEPT !.x = IF stream.x = << >> THEN << >> ELSE Tail(stream.x)]

RECURSIVE Multicast_pass(_, _, _, _)
\* the loop of Multicast::poll_next from index i on (one-based here)
Multicast_pass(streams, i, res, polled) ==
    IF i > Len(streams)
    THEN [res |-> res, streams |-> streams, polled |-> polled]
    ELSE LET r == VariantStream_poll_next(streams[i])
             after == [streams EXCEPT ![i] = Polled(streams[i])]
         IN IF r.poll = "ReadySome"
            THEN [res |-> r, streams |-> after, polled |-> Append(polled, i)]
            ELSE Multicast_pass(after, i + 1,
                                IF r.poll = "Pending" THEN PollPending ELSE res,
                                Append(polled, i))

Multicast_poll_next_from_second(streams) ==
    Multicast_pass(streams, 2, ReadyNone, << >>)

Multicast_poll_next_pending_forgotten(streams) ==
    LET p == Multicast_pass(streams, 1, ReadyNone, << >>)
    IN IF /\ p.res.poll = "Pending"
          /\ Inner_poll_next(streams[Len(streams)].x).poll = "ReadyNone"
       THEN [p EXCEPT !.res = ReadyNone]
       ELSE p

RECURSIVE RetainedFrom(_, _, _)
\* the sub-streams from index i on, those left out that answered Ready(None)
RetainedFrom(before, after, i) ==
    IF i > Len(after) THEN << >>
    ELSE IF before[i].x # after[i].x /\ Head(before[i].x) = ReadyNone
    THEN RetainedFrom(before, after, i + 1)
    ELSE <<after[i]>> \o RetainedFrom(before, after, i + 1)

\* a poll that takes a sub-stream out of the vector once it has answered
\* Ready(None)
Multicast_poll_next_removes_ended(streams) ==
    LET p == Multicast_pass(streams, 1, ReadyNone, << >>)
    IN [p EXCEPT !.streams = RetainedFrom(streams, p.streams, 1)]

\* a poll that goes on to the end of the vector after it has found an item
Multicast_poll_next_polls_on(streams) ==
    LET p == Multicast_pass(streams, 1, ReadyNone, << >>)
    IN [p EXCEPT !.streams = [i \in 1..Len(streams) |-> Polled(streams[i])],
                 !.polled = [i \in 1..Len(streams) |-> i]]

\* Multicast::poll_next
Multicast_poll_next(streams) == Multicast_pass(streams, 1, ReadyNone, << >>)

\* Multicast::new, no poll made yet.  Next to the sub-streams, history: the
\* number of polls, the sub-streams when the last poll began, its result and
\* the indexes it polled, the sub-streams as they were pushed, the indexes
\* that had reported end-of-stream when the last poll began and those that
\* have by now, the items taken out of sub-streams and the items returned.
Multicast_new ==
    [streams |-> << >>, polls |-> 0, before |-> << >>, res |-> ReadyNone,
     polled |-> << >>, pushed |-> << >>, ended_before |-> {}, ended |-> {},
     handed |-> << >>, returned |-> << >>]

\* the indexes of the sub-streams that a pass polled and that answered
\* Ready(None)
EndedIn(before, polled) ==
    {polled[n] : n \in {m \in 1..Len(polled) : Inner_poll_next(before[polled[m]].x) = ReadyNone}}

RECURSIVE HandedIn(_, _, _)
\* the items that left the sub-streams from index i on between before and
\* after, each with the index of its sub-stream
HandedIn(before, after, i) ==
    IF i > Len(before) \/ i > Len(after) THEN << >>
    ELSE IF before[i].x # after[i].x /\ Head(before[i].x).poll = "ReadySome"
    THEN <<[from |-> i, item |-> Head(before[i].x).item]>> \o HandedIn(before, after, i + 1)
    ELSE HandedIn(before, after, i + 1)

\* Option: None and Some(v)
Nothing == [some |-> FALSE]
Some(v) == [some |-> TRUE, v |-> v]

\* Chat::new: a connected IRC stream, nothing polled yet
Chat_new ==
    [irc |-> "open", polled |-> FALSE, inner |-> PollPending, res |-> PollPending,
     woke |-> FALSE, after_skip |-> FALSE]

\* no channel looked up yet
NoLookup == [called |-> FALSE]

\* no chat page fetched, no value converted, no request built
NoProcessor == [pc |-> "none"]
NotApplied == [fn |-> "none"]
NotClassified == [pc |-> "none"]
ExtrasIdle ==
    /\ processor = NoProcessor
    /\ applied = NotApplied
    /\ requests = << >>
    /\ classified = NotClassified

(***************************************************************************)
(* The program: a stream over a ChatContext, the signaling servers         *)
(* answering anything, the chat server answering from a small pool.        *)
(***************************************************************************)
Init ==
    /\ inner = with_topic("t1")
    /\ lock = "free"
    /\ http = NoReq
    /\ taskpc = "unspawned"
    /\ opc = "start"
    /\ receiver = "none"
    /\ pending = 0
    /\ last = NoLast
    /\ sinceEnd = << >>
    /\ rotation = NoRotation
    /\ ended = "never"
    /\ live_status \in {"Upcoming", "Live", "Replay"}
    /\ first_cont = "none"
    /\ fetched = << >>
    /\ emitted = << >>
    /\ yielded = 0
    /\ seen = {}
    /\ next_topic = "t1"
    /\ last_fetch = "none"
    /\ multicast = Multicast_new
    /\ twitch = Chat_new
    /\ lookup = NoLookup
    /\ ExtrasIdle
    /\ result = "running"

Next ==
    \/ StreamStart(SmallPool, Topics)
    \/ SpawnLock
    \/ SpawnChooseResp(ChooseResponses)
    \/ SpawnInitResp(InitResponses)
    \/ EmitInitial
    \/ StreamPoll(SmallPool, Topics)
    \/ StreamRefreshTopic
    \/ StreamRecvClosed
    \/ StreamDrop
    \/ ReplayNext(SmallPool, Topics)
    \/ TimedNext(SmallPool, Topics)
    \/ TaskRotate
    \/ TaskChooseResp(ChooseResponses)
    \/ TaskInitResp(InitResponses)
    \/ TaskSubscribeResp(BOOLEAN)
    \/ TaskChunk(Chunks)
    \/ TaskEOF
    \/ TaskReadError

Spec == Init /\ [][Next]_vars

(***************************************************************************)
(* The stream over every chunk of ChunkPool, the signaling servers         *)
(* answering well.                                                         *)
(***************************************************************************)
StreamNext ==
    \/ StreamStart(ChunkPool, {"t1"})
    \/ SpawnLock
    \/ SpawnChooseResp({HttpOk(GoodChooseBody("g1"))})
    \/ SpawnInitResp({HttpOk(GoodInitBody("s1"))})
    \/ EmitInitial
    \/ StreamPoll(ChunkPool, {"t1"})
    \/ StreamRefreshTopic
    \/ StreamRecvClosed
    \/ StreamDrop
    \/ ReplayNext(ChunkPool, {"t1"})
    \/ TimedNext(ChunkPool, {"t1"})
    \/ TaskRotate
    \/ TaskChooseResp({HttpOk(GoodChooseBody("g1"))})
    \/ TaskInitResp({HttpOk(GoodInitBody("s1"))})
    \/ TaskSubscribeResp({TRUE})
    \/ TaskChunk({GoodChunk(1), <<LenLine>>})
    \/ TaskEOF

StreamSpec == Init /\ [][StreamNext]_vars

(***************************************************************************)
(* SignalerChannelInner alone: its methods called in any order, each       *)
(* awaited to its end, with any answer of the servers.                     *)
(***************************************************************************)
InnerInit ==
    /\ inner \in {with_topic(t) : t \in Topics}
    /\ lock = "free"
    /\ http = NoReq
    /\ taskpc = "unspawned"
    /\ opc = "api"
    /\ receiver = "none"
    /\ pending = 0
    /\ last = NoLast
    /\ sinceEnd = << >>
    /\ rotation = NoRotation
    /\ ended = "never"
    /\ live_status = "Live"
    /\ first_cont = "none"
    /\ fetched = << >>
    /\ emitted = << >>
    /\ yielded = 0
    /\ seen = {}
    /\ next_topic = "t1"
    /\ last_fetch = "none"
    /\ multicast = Multicast_new
    /\ twitch = Chat_new
    /\ lookup = NoLookup
    /\ ExtrasIdle
    /\ result = "running"

apiframe == <<lock, taskpc, opc, receiver, pending, sinceEnd, rotation, ended,
              fixed, first_cont, fetched, emitted, yielded, seen, next_topic,
              last_fetch, result>>

ApiReset ==
    /\ inner' = reset(inner)
    /\ last' = Last("api", "reset", "ok", None, inner, 0)
    /\ UNCHANGED http
    /\ UNCHANGED apiframe

ApiChooseServer ==
    /\ \E resp \in ChooseResponses :
        /\ inner' = choose_server(inner, resp).s
        /\ last' = Last("api", "choose_server", choose_server(inner, resp).res,
                        resp, inner, 0)
    /\ http' = choose_server_request(inner)
    /\ UNCHANGED apiframe

ApiInitSession ==
    /\ \E resp \in InitResponses :
        LET b == init_session_begin(inner)
            r == init_session_end(b.s, resp)
        IN IF b.res = "panic"
           THEN /\ inner' = b.s
                /\ http' = NoReq
                /\ last' = Last("api", "init_session", "panic", None, inner, 0)
           ELSE /\ inner' = r.s
                /\ http' = b.req
                /\ last' = Last("api", "init_session", r.res, resp, inner, 0)
    /\ UNCHANGED apiframe

ApiGetSessionStream ==
    /\ http' = get_session_stream(inner).req
    /\ last' = Last("api", "get_session_stream", get_session_stream(inner).res,
                    None, inner, 0)
    /\ UNCHANGED inner
    /\ UNCHANGED apiframe

ApiRefreshTopic ==
    /\ \E t \in Topics : inner' = refresh_topic(inner, t)
    /\ last' = Last("api", "refresh_topic", "ok", None, inner, 0)
    /\ UNCHANGED http
    /\ UNCHANGED apiframe

\* a chunk acknowledgement: the task's store into aid
ApiAck ==
    /\ \E n \in 0..MaxAid : inner' = [inner EXCEPT !.aid = n]
    /\ last' = Last("api", "ack", "ok", None, inner, 0)
    /\ UNCHANGED http
    /\ UNCHANGED apiframe

InnerNext ==
    \/ ApiReset
    \/ ApiChooseServer
    \/ ApiInitSession
    \/ ApiGetSessionStream
    \/ ApiRefreshTopic
    \/ ApiAck

InnerSpec == InnerInit /\ [][InnerNext]_vars

(***************************************************************************)
(* The session state after init_session and after reset (InnerSpec).       *)
(***************************************************************************)
Cleared(s) ==
    /\ s.gsessionid = None
    /\ s.sid = None
    /\ s.rid = 0
    /\ s.aid = 0
    /\ s.session_n = 0

\* C1: immediately after a successful init_session both gsessionid and sid
\* are present; immediately after reset() both are absent and
\* rid = aid = session_n = 0.
C1_SessionAfterInitAndReset ==
    /\ (last.op = "init_session" /\ last.res = "ok")
          => (inner.gsessionid # None /\ inner.sid # None)
    /\ last.op = "reset" => Cleared(inner)

\* a reset of a session that was established and had acknowledged a chunk
C1_Witness ==
    /\ last.op = "reset"
    /\ last.pre.gsessionid # None
    /\ last.pre.sid # None
    /\ last.pre.session_n = 1
    /\ last.pre.aid > 0

(***************************************************************************)
(* The subscriber task (Spec).                                             *)
(***************************************************************************)
FullRotation == <<"reset", "choose_server", "init_session", "subscribe">>

\* C2: whenever the hanging GET has ended, by EOF or by a read error, the
\* task clears the session state and then runs choose-server, init-session
\* and subscribe, in that order, before it reads any further chunk.
C2_RotationBeforeNextChunk ==
    /\ (ended # "never" /\ taskpc = "choose") => Cleared(inner)
    /\ (ended # "never" /\ taskpc = "choose") => sinceEnd = <<"reset">>
    /\ (ended # "never" /\ taskpc = "init")
          => sinceEnd = <<"reset", "choose_server">>
    /\ (ended # "never" /\ taskpc = "subscribe")
          => sinceEnd = <<"reset", "choose_server", "init_session">>
    /\ (ended # "never" /\ taskpc = "reading") => sinceEnd = FullRotation
    /\ (ended # "never" /\ last.by = "task" /\ last.op = "chunk")
          => sinceEnd = FullRotation

\* a chunk read after a hanging GET ended by a read error, the session
\* before that end having been established with an acknowledged chunk
C2_Witness ==
    /\ ended = "read_error"
    /\ last.by = "task"
    /\ last.op = "chunk"
    /\ last.res = "ok"
    /\ sinceEnd = FullRotation

\* C3: for every chunk of the hanging GET, whatever its content, the task
\* keeps running and sends exactly one notification after the state update;
\* aid becomes element [0] of the last element of the second line's array
\* when that line parses as JSON and is left unchanged when it does not.
C3_EveryChunkNotifies ==
    (last.by = "task" /\ last.op = "chunk" /\ receiver = "alive") =>
        /\ taskpc = "reading"
        /\ last.sent = 1
        /\ IF SecondLine(last.inp) = NotJson
           THEN inner.aid = last.pre.aid
           ELSE inner.aid = SecondLine(last.inp).a[Len(SecondLine(last.inp).a)].a[1].n

\* C4: the mutex of the signaling state is never held while an HTTP request
\* is in flight (the choose-server POST, the init-session POST, the opening
\* of the hanging GET).
C4_NoLockAcrossHttp == ~(lock # "free" /\ InFlight)

\* the opening integer of an init-session response, when it has one
OpeningInteger(resp) == Idx(Idx(SecondLine(resp.body), 0), 0)

\* the handshake failures of C5: an HTTP failure of choose-server or
\* init-session, or an init-session response that opens with another
\* integer than 0
HandshakeFailure ==
    /\ last.op \in {"choose_server", "init_session"}
    /\ \/ last.inp.http = "fail"
       \/ /\ last.op = "init_session"
          /\ last.inp.http = "ok"
          /\ OpeningInteger(last.inp).t = "num"
          /\ OpeningInteger(last.inp).n # 0

\* C5: a handshake failure, at startup or during a rotation, is reported as
\* an error value that ends the stream; it never crashes the task and never
\* leaves the consumer without an error.
C5_HandshakeFailureIsError ==
    HandshakeFailure =>
        /\ taskpc # "panicked"
        /\ result # "panicked"
        /\ opc = "done" => result = "error"

(***************************************************************************)
(* The task under the scheduling the runtime gives it: a task that can     *)
(* take a step takes it, the servers answer every handshake request, and   *)
(* an open hanging GET yields a chunk, ends or fails.  Nothing makes a     *)
(* chunk arrive rather than an EOF.                                        *)
(***************************************************************************)
FairSpec ==
    /\ Spec
    /\ WF_vars(TaskRotate)
    /\ WF_vars(TaskChooseResp(ChooseResponses))
    /\ WF_vars(TaskInitResp(InitResponses))
    /\ WF_vars(TaskSubscribeResp(BOOLEAN))
    /\ WF_vars(TaskChunk(Chunks) \/ TaskEOF \/ TaskReadError)

\* C6: once every receiver has been dropped, the task eventually stops: the
\* hanging GET is abandoned and no further request is made, whether or not
\* another chunk ever arrives.
C6_TaskStopsAfterDrop ==
    (receiver = "dropped") ~> (taskpc \in {"done", "panicked"})

\* the string at [0][1][1] of the second line of an init-session response
SidOfResponse(resp) == resp.body[2].a[1].a[2].a[2].s

\* C7: a successful init_session stores as sid the string at [0][1][1] of the
\* response's second line and sets session_n to 1, leaving gsessionid, topic,
\* rid and aid unchanged; the hanging GET opened next carries that sid and
\* that gsessionid.
C7_InitSessionStoresSid ==
    /\ http.kind = "init_session" => inner.session_n = 1
    /\ (last.op = "init_session" /\ last.res = "ok") =>
          /\ inner = [last.pre EXCEPT !.sid = SidOfResponse(last.inp),
                                      !.session_n = 1]
          /\ last.by = "task" =>
                http = [kind |-> "subscribe",
                        gsessionid |-> last.pre.gsessionid,
                        SID |-> SidOfResponse(last.inp),
                        AID |-> last.pre.aid]

\* a rotation's init-session answered with another sid than the session
\* before it had, the GET for it being opened
C7_Witness ==
    /\ last.by = "task"
    /\ last.op = "init_session"
    /\ last.res = "ok"
    /\ ended # "never"
    /\ inner.sid = "s2"
    /\ inner.gsessionid = "g2"
    /\ http.kind = "subscribe"

(***************************************************************************)
(* What a stream emits, against what it fetched (StreamSpec).              *)
(***************************************************************************)
RECURSIVE Flatten(_)
\* the actions of a sequence of chunks, one chunk after another
Flatten(chunks) ==
    IF chunks = << >> THEN << >> ELSE Head(chunks) \o Flatten(Tail(chunks))

\* the chunks whose actions the stream has gone through
YieldedChunks == SubSeq(fetched, 1, yielded)

\* the id of the item of an AddChatItem, read off the item
AddedId(a) ==
    IF a.item.variant = "MembershipGift" THEN a.item.id
    ELSE a.item.message_renderer_base.id

NoAddEmittedTwice(actions) ==
    \A i, j \in DOMAIN actions :
        (/\ i < j
         /\ actions[i].kind = "AddChatItem"
         /\ actions[j].kind = "AddChatItem") => AddedId(actions[i]) # AddedId(actions[j])

\* C8: for a live stream no AddChatItem is emitted twice with the same
\* ChatItem id, for any sequence of fetched chunks.
C8_NoAddChatItemTwice ==
    (updates_live(live_status) /\ first_cont = "Invalidation")
        => NoAddEmittedTwice(emitted)

RECURSIVE OnlyLaterDuplicatesRemoved(_, _, _)
\* out is sent with nothing removed but AddChatItem actions whose id an
\* earlier AddChatItem of sent has (ids: the ids of sent so far), and with
\* nothing reordered
OnlyLaterDuplicatesRemoved(sent, out, ids) ==
    IF sent = << >> THEN out = << >>
    ELSE LET a == Head(sent)
             isAdd == a.kind = "AddChatItem"
             ids2 == IF isAdd THEN ids \cup {AddedId(a)} ELSE ids
         IN \/ /\ out # << >>
               /\ Head(out) = a
               /\ OnlyLaterDuplicatesRemoved(Tail(sent), Tail(out), ids2)
            \/ /\ isAdd
               /\ AddedId(a) \in ids
               /\ OnlyLaterDuplicatesRemoved(Tail(sent), out, ids2)

RECURSIVE ReplayChildrenSpliced(_)
\* each ReplayChat replaced by its AddChatItem children, in their order
ReplayChildrenSpliced(actions) ==
    IF actions = << >> THEN << >>
    ELSE (IF Head(actions).kind = "ReplayChat"
          THEN SelectSeq(Head(actions).actions, IsAddChatItem)
          ELSE <<Head(actions)>>)
         \o ReplayChildrenSpliced(Tail(actions))

youtube == <<inner, lock, http, taskpc, opc, receiver, pending, last, sinceEnd, rotation,
             ended, live_status, first_cont, fetched, emitted, yielded, seen,
             next_topic, last_fetch, result>>

YouTubeIdle ==
    /\ inner = with_topic("t1")
    /\ lock = "free"
    /\ http = NoReq
    /\ taskpc = "unspawned"
    /\ opc = "idle"
    /\ receiver = "none"
    /\ pending = 0
    /\ last = NoLast
    /\ sinceEnd = << >>
    /\ rotation = NoRotation
    /\ ended = "never"
    /\ live_status = "Live"
    /\ first_cont = "none"
    /\ fetched = << >>
    /\ emitted = << >>
    /\ yielded = 0
    /\ seen = {}
    /\ next_topic = "t1"
    /\ last_fetch = "none"
    /\ result = "running"

MulticastInit ==
    /\ YouTubeIdle
    /\ multicast = Multicast_new
    /\ twitch = Chat_new
    /\ lookup = NoLookup
    /\ ExtrasIdle

\* Multicast::push, before the first poll
MulticastPush ==
    /\ multicast.polls = 0
    /\ Len(multicast.streams) < MaxStreams
    /\ \E kind \in Kinds, script \in Scripts :
        multicast' = [multicast EXCEPT
                         !.streams = Append(@, VariantStream(kind, script)),
                         !.pushed = Append(@, VariantStream(kind, script))]
    /\ UNCHANGED <<youtube, twitch, lookup, extras>>

\* a poll whose pass starts one sub-stream further every time
MulticastPoll_round_robin ==
    /\ multicast.polls < MaxPolls
    /\ LET n == Len(multicast.streams)
           k == IF n = 0 THEN 0 ELSE multicast.polls % n
           turned == [i \in 1..n |-> multicast.streams[((i - 1 + k) % n) + 1]]
           p == Multicast_poll_next(turned)
           back == [m \in 1..n |-> p.streams[((m - 1 - k + n) % n) + 1]]
           polled == [q \in 1..Len(p.polled) |-> ((p.polled[q] - 1 + k) % n) + 1]
       IN multicast' = [streams |-> back, polls |-> multicast.polls + 1,
                        before |-> multicast.streams, res |-> p.res,
                        polled |-> polled, pushed |-> multicast.pushed,
                        ended_before |-> multicast.ended,
                        ended |-> multicast.ended \cup EndedIn(multicast.streams, polled),
                        handed |-> multicast.handed
                                       \o HandedIn(multicast.streams, back, 1),
                        returned |-> IF p.res.poll = "ReadySome"
                                     THEN Append(multicast.returned, p.res.item)
                                     ELSE multicast.returned]
    /\ UNCHANGED <<youtube, twitch, lookup, extras>>

\* one call of Multicast::poll_next
MulticastPoll ==
    /\ multicast.polls < MaxPolls
    /\ LET p == Multicast_poll_next(multicast.streams)
       IN multicast' = [streams |-> p.streams, polls |-> multicast.polls + 1,
                        before |-> multicast.streams, res |-> p.res,
                        polled |-> p.polled, pushed |-> multicast.pushed,
                        ended_before |-> multicast.ended,
                        ended |-> multicast.ended \cup EndedIn(multicast.streams, p.polled),
                        handed |-> multicast.handed
                                       \o HandedIn(multicast.streams, p.streams, 1),
                        returned |-> IF p.res.poll = "ReadySome"
                                     THEN Append(multicast.returned, p.res.item)
                                     ELSE multicast.returned]
    /\ UNCHANGED <<youtube, twitch, lookup, extras>>

MulticastNext == MulticastPush \/ MulticastPoll

MulticastSpec == MulticastInit /\ [][MulticastNext]_vars

(***************************************************************************)
(* Claims about the Multicast, over the last poll it made: multicast.before *)
(* holds the sub-streams as they were when the poll began.                 *)
(***************************************************************************)
HasPolled == multicast.polls > 0

\* what sub-stream i was about to return when the last poll began
WouldReturn(i) == Inner_poll_next(multicast.before[i].x)

ReadyIndexes ==
    {i \in 1..Len(multicast.before) : WouldReturn(i).poll = "ReadySome"}

LowestReady == CHOOSE k \in ReadyIndexes : \A i \in ReadyIndexes : k <= i

\* sub-stream j after the last poll, had that poll polled it exactly once
PolledOnce(j) ==
    multicast.streams[j].x =
        IF multicast.before[j].x = << >> THEN << >> ELSE Tail(multicast.before[j].x)

\* C12: a poll of the Multicast polls the sub-streams in insertion order from
\* the first one; when some sub-stream is ready with an item the poll returns
\* the item of the lowest-index such sub-stream, every sub-stream before it
\* (and itself) was polled once in the pass and no sub-stream after it was
\* polled.
C12_FirstReadyWins ==
    HasPolled =>
        /\ Len(multicast.streams) = Len(multicast.before)
        /\ \A n \in 1..Len(multicast.polled) : multicast.polled[n] = n
        /\ ReadyIndexes # {} =>
            /\ multicast.res.poll = "ReadySome"
            /\ multicast.res.item.ok = WouldReturn(LowestReady).item.ok
            /\ multicast.res.item.v.v = WouldReturn(LowestReady).item.v
            /\ Len(multicast.polled) = LowestReady
            /\ \A j \in 1..LowestReady : PolledOnce(j)
            /\ \A j \in (LowestReady + 1)..Len(multicast.before) :
                   multicast.streams[j] = multicast.before[j]

C12_Witness ==
    /\ HasPolled
    /\ Len(multicast.before) = 3
    /\ WouldReturn(1).poll = "Pending"
    /\ WouldReturn(2) = ReadySome(Err("e1"))
    /\ WouldReturn(3) = ReadySome(Ok("c1"))
    /\ multicast.res.poll = "ReadySome"
    /\ multicast.res.item.v.v = "e1"
    /\ multicast.polled = <<1, 2>>

\* C13: a poll in which no sub-stream yields an item returns end-of-stream
\* exactly when every sub-stream reported terminated in the pass (a Multicast
\* without sub-streams included), and pending when at least one sub-stream is
\* pending, whatever the others report; every sub-stream is polled once.
C13_EndOnlyWhenAllTerminated ==
    (HasPolled /\ ReadyIndexes = {}) =>
        /\ multicast.res.poll \in {"ReadyNone", "Pending"}
        /\ multicast.res.poll = "ReadyNone" <=>
               \A i \in 1..Len(multicast.before) : WouldReturn(i).poll = "ReadyNone"
        /\ multicast.res.poll = "Pending" <=>
               \E i \in 1..Len(multicast.before) : WouldReturn(i).poll = "Pending"
        /\ Len(multicast.polled) = Len(multicast.before)
        /\ \A j \in 1..Len(multicast.before) : PolledOnce(j)

C13_Witness ==
    /\ HasPolled
    /\ Len(multicast.before) = 3
    /\ WouldReturn(1).poll = "ReadyNone"
    /\ WouldReturn(2).poll = "Pending"
    /\ WouldReturn(3).poll = "ReadyNone"
    /\ multicast.res.poll = "Pending"

\* C14: an item the Multicast yields carries the tag of the sub-stream that
\* produced it: VariantChat::Twitch or MulticastError::TwitchError from a
\* Twitch sub-stream, VariantChat::YouTube or MulticastError::YouTubeError
\* from a YouTube one, around the unchanged event or error; a sub-stream's
\* pending and end-of-stream pass through VariantStream unchanged.
C14_TaggedBySource ==
    HasPolled =>
        /\ multicast.res.poll = "ReadySome" =>
            LET producer == multicast.before[multicast.polled[Len(multicast.polled)]]
                item == Head(producer.x).item
            IN /\ multicast.res.item.ok = item.ok
               /\ multicast.res.item.v.v = item.v
               /\ multicast.res.item.v.tag =
                      IF producer.kind = "Twitch"
                      THEN (IF item.ok THEN "VariantChat::Twitch"
                                       ELSE "MulticastError::TwitchError")
                      ELSE (IF item.ok THEN "VariantChat::YouTube"
                                       ELSE "MulticastError::YouTubeError")
        /\ \A j \in 1..Len(multicast.before) :
               WouldReturn(j).poll # "ReadySome" =>
                   VariantStream_poll_next(multicast.before[j]) = WouldReturn(j)

C14_Witness ==
    /\ HasPolled
    /\ Len(multicast.before) = 2
    /\ multicast.before[1].kind = "YouTube"
    /\ WouldReturn(1).poll = "Pending"
    /\ multicast.before[2].kind = "Twitch"
    /\ multicast.res = ReadySome(Err([tag |-> "MulticastError::TwitchError", v |-> "e1"]))

(***************************************************************************)
(* Twitch (src/src/twitch): to_chat_event translates one IRC message.  A   *)
(* string is the sequence of its characters (code points); "é" stands for  *)
(* a character of two UTF-8 bytes.  Tags that only fill fields no property *)
(* reads (display-name, color, badge-info, returning-chatter, first-msg,   *)
(* emote-only, reply-parent-msg-id) are left out.                          *)
(***************************************************************************)
len_utf8(c) == IF c = "é" THEN 2 ELSE 1

RECURSIVE str_len(_)
\* str::len: the length in bytes
str_len(s) == IF s = << >> THEN 0 ELSE len_utf8(Head(s)) + str_len(Tail(s))

\* util::get_utf8_slice: code points start..end (zero-based, end excluded);
\* None when start or end lies beyond the number of code points
get_utf8_slice(s, start, end) ==
    IF start > Len(s) \/ (end >= start /\ end > Len(s))
    THEN Nothing
    ELSE Some(SubSeq(s, start + 1, end))

HasChar(s, sep) == \E i \in 1..Len(s) : s[i] = sep
FirstChar(s, sep) == CHOOSE i \in 1..Len(s) : s[i] = sep /\ \A j \in 1..(i - 1) : s[j] # sep

RECURSIVE split(_, _)
\* str::split(sep)
split(s, sep) ==
    IF ~HasChar(s, sep)
    THEN <<s>>
    ELSE <<SubSeq(s, 1, FirstChar(s, sep) - 1)>>
             \o split(SubSeq(s, FirstChar(s, sep) + 1, Len(s)), sep)

\* str::splitn(2, sep)
splitn2(s, sep) ==
    IF ~HasChar(s, sep)
    THEN <<s>>
    ELSE <<SubSeq(s, 1, FirstChar(s, sep) - 1), SubSeq(s, FirstChar(s, sep) + 1, Len(s))>>

DigitChars == <<"0", "1", "2", "3", "4", "5", "6", "7", "8", "9">>
IsDigit(c) == \E d \in 1..10 : DigitChars[d] = c
DigitValue(c) == (CHOOSE d \in 1..10 : DigitChars[d] = c) - 1

RECURSIVE StripZeros(_)
StripZeros(ds) == IF Len(ds) > 1 /\ Head(ds) = "0" THEN StripZeros(Tail(ds)) ELSE ds

RECURSIVE LexLeq(_, _)
LexLeq(a, b) ==
    IF a = << >> THEN TRUE
    ELSE IF DigitValue(Head(a)) # DigitValue(Head(b))
         THEN DigitValue(Head(a)) < DigitValue(Head(b))
         ELSE LexLeq(Tail(a), Tail(b))

\* a <= b for decimal numbers without leading zeros
DecimalLeq(a, b) == Len(a) < Len(b) \/ (Len(a) = Len(b) /\ LexLeq(a, b))

\* str::parse for an unsigned integer type of maximum max: an optional "+",
\* then digits only; the value is kept as its decimal digits
parse_unsigned(s, max) ==
    LET ds == IF s # << >> /\ Head(s) = "+" THEN Tail(s) ELSE s
    IN IF ds = << >> \/ \E i \in 1..Len(ds) : ~IsDigit(ds[i])
       THEN Nothing
       ELSE IF DecimalLeq(StripZeros(ds), max) THEN Some(StripZeros(ds)) ELSE Nothing

U32Max == <<"4", "2", "9", "4", "9", "6", "7", "2", "9", "5">>
U64Max == <<"1", "8", "4", "4", "6", "7", "4", "4", "0", "7", "3", "7", "0", "9",
            "5", "5", "1", "6", "1", "5">>
I64Max == <<"9", "2", "2", "3", "3", "7", "2", "0", "3", "6", "8", "5", "4", "7",
            "7", "5", "8", "0", "7">>
I64MinMagnitude == <<"9", "2", "2", "3", "3", "7", "2", "0", "3", "6", "8", "5", "4", "7",
                     "7", "5", "8", "0", "8">>

parse_u64(s) == parse_unsigned(s, U64Max)
parse_usize(s) == parse_unsigned(s, U64Max)

\* parse::<NonZeroU32>
parse_nonzero_u32(s) ==
    IF parse_unsigned(s, U32Max) = Some(<<"0">>) THEN Nothing ELSE parse_unsigned(s, U32Max)

\* parse::<i64>: an optional sign, then digits only
parse_i64(s) ==
    IF s # << >> /\ Head(s) = "-"
    THEN (IF Tail(s) # << >> /\ Head(Tail(s)) = "+"
          THEN Nothing ELSE parse_unsigned(Tail(s), I64MinMagnitude))
    ELSE parse_unsigned(s, I64Max)

RECURSIVE ValueOf(_)
\* the number a sequence of decimal digits denotes
ValueOf(ds) ==
    IF ds = << >> THEN 0
    ELSE 10 * ValueOf(SubSeq(ds, 1, Len(ds) - 1)) + DigitValue(ds[Len(ds)])

\* MapNonempty::and_then_nonempty on Option<String>
IsNonempty(tag) == tag.some /\ tag.v # << >>

\* Uuid::parse_str on the id tags drawn here
UuidStrings == {"b34ccfc7-4977-403a-8a94-33c6bac34fb8"}
parse_uuid(s) == IF s \in UuidStrings THEN Some(s) ELSE Nothing

\* one parsed occurrence of an emote
Occurrence(id, start, end) == [id |-> id, start |-> start, end |-> end]

RECURSIVE parse_ranges(_, _)
\* the inner loop over `ranges.split(',')`: each range is from-to
parse_ranges(id, ranges) ==
    IF ranges = << >>
    THEN Some(<< >>)
    ELSE LET sp == splitn2(Head(ranges), "-")
             from == parse_usize(sp[1])
             to == IF Len(sp) = 2 THEN parse_usize(sp[2]) ELSE Nothing
         IN IF ~from.some \/ ~to.some
            THEN Nothing
            ELSE LET rest == parse_ranges(id, Tail(ranges))
                 IN IF rest.some
                    THEN Some(<<Occurrence(id, ValueOf(from.v), ValueOf(to.v))>> \o rest.v)
                    ELSE Nothing

RECURSIVE parse_emotes(_)
\* the loop over `emotes.split('/')`: it stops at an empty entry, and an
\* entry that is not id:ranges drops the message
parse_emotes(entries) ==
    IF entries = << >> \/ Head(entries) = << >>
    THEN Some(<< >>)
    ELSE LET sp == splitn2(Head(entries), ":")
         IN IF Len(sp) < 2
            THEN Nothing
            ELSE LET here == parse_ranges(sp[1], split(sp[2], ","))
                 IN IF ~here.some
                    THEN Nothing
                    ELSE LET rest == parse_emotes(Tail(entries))
                         IN IF rest.some THEN Some(here.v \o rest.v) ELSE Nothing

RECURSIVE sort_by_start(_)
\* emotes.sort_by(|a, b| a.1.cmp(&b.1)), a stable sort
sort_by_start(emotes) ==
    IF emotes = << >>
    THEN << >>
    ELSE LET e == emotes[Len(emotes)]
             sorted == sort_by_start(SubSeq(emotes, 1, Len(emotes) - 1))
         IN SelectSeq(sorted, LAMBDA x : x.start <= e.start) \o <<e>>
                \o SelectSeq(sorted, LAMBDA x : x.start > e.start)

Text(text) == [seg |-> "Text", text |-> text, id |-> << >>]
Emote(name, id) == [seg |-> "Emote", text |-> name, id |-> id]

RECURSIVE walk(_, _, _, _)
\* the loop over the sorted emotes, from code point i on
walk(msg, emotes, i, segments) ==
    IF emotes = << >>
    THEN Some([i |-> i, segments |-> segments])
    ELSE LET e == Head(emotes)
             gap == get_utf8_slice(msg, i, e.start)
             name == get_utf8_slice(msg, e.start, e.end + 1)
         IN IF e.start > i /\ ~gap.some
            THEN Nothing
            ELSE IF e.end >= e.start /\ ~name.some
                 THEN Nothing
                 ELSE walk(msg, Tail(emotes),
                           IF e.end >= e.start THEN e.end + 1 ELSE i,
                           segments
                               \o (IF e.start > i THEN <<Text(gap.v)>> ELSE << >>)
                               \o (IF e.end >= e.start THEN <<Emote(name.v, e.id)>> ELSE << >>))

\* the segments of a body under its parsed emotes
segments_of(msg, emotes) ==
    IF emotes = << >>
    THEN Some(<<Text(msg)>>)
    ELSE LET w == walk(msg, sort_by_start(emotes), 0, << >>)
         IN IF ~w.some
            THEN Nothing
            ELSE IF w.v.i < str_len(msg)
                 THEN (IF get_utf8_slice(msg, w.v.i, str_len(msg)).some
                       THEN Some(w.v.segments
                                     \o <<Text(get_utf8_slice(msg, w.v.i, str_len(msg)).v)>>)
                       ELSE Nothing)
                 ELSE Some(w.v.segments)

RECURSIVE parse_badge_entries(_)
parse_badge_entries(entries) ==
    IF entries = << >>
    THEN Some(<< >>)
    ELSE IF Len(splitn2(Head(entries), "/")) < 2
         THEN Nothing
         ELSE LET rest == parse_badge_entries(Tail(entries))
              IN IF rest.some THEN Some(<<splitn2(Head(entries), "/")>> \o rest.v)
                              ELSE Nothing

\* the badges map, as its (name, version) pairs: empty when the tag is
\* absent or empty, and when one entry is not name/version
parse_badges(tag) ==
    IF ~IsNonempty(tag)
    THEN << >>
    ELSE IF parse_badge_entries(split(tag.v, ",")).some
         THEN parse_badge_entries(split(tag.v, ",")).v
         ELSE << >>

HasBadge(badges, name) == \E i \in 1..Len(badges) : badges[i][1] = name

role_of_badge_first(tags) ==
    IF HasBadge(parse_badges(tags.badges), <<"b", "r", "o", "a", "d", "c", "a", "s", "t", "e", "r">>) THEN "Broadcaster"
    ELSE IF tags.mod = Some(<<"1">>) THEN "Moderator"
    ELSE IF tags.user_type = Some(<<"a", "d", "m", "i", "n">>) THEN "TwitchAdmin"
    ELSE IF tags.user_type = Some(<<"g", "l", "o", "b", "a", "l", "_", "m", "o", "d">>) THEN "GlobalModerator"
    ELSE IF tags.user_type = Some(<<"s", "t", "a", "f", "f">>) THEN "TwitchStaff"
    ELSE "Normal"

\* User::role
role_of(tags) ==
    IF tags.user_type = Some(<<"a", "d", "m", "i", "n">>) THEN "TwitchAdmin"
    ELSE IF tags.user_type = Some(<<"g", "l", "o", "b", "a", "l", "_", "m", "o", "d">>) THEN "GlobalModerator"
    ELSE IF tags.user_type = Some(<<"s", "t", "a", "f", "f">>) THEN "TwitchStaff"
    ELSE IF tags.mod = Some(<<"1">>) THEN "Moderator"
    ELSE IF HasBadge(parse_badges(tags.badges), <<"b", "r", "o", "a", "d", "c", "a", "s", "t", "e", "r">>) THEN "Broadcaster"
    ELSE "Normal"

bits_of_nonempty(tag) == IF IsNonempty(tag) THEN Some(tag.v) ELSE Nothing

\* tags.remove("bits").and_then_nonempty(|f| f.parse().ok()) into NonZeroU32
bits_of(tag) == IF IsNonempty(tag) THEN parse_nonzero_u32(tag.v) ELSE Nothing

NoEvent == [kind |-> "None"]
Panic == [kind |-> "panic"]
MemberChunk == [kind |-> "MemberChunk"]
EndOfMembers == [kind |-> "EndOfMembers"]
ChatEvent(kind, id, user_id, role, bits, segments) ==
    [kind |-> kind, id |-> id, user_id |-> user_id, role |-> role, bits |-> bits,
     segments |-> segments]

\* the PRIVMSG arm of to_chat_event
privmsg_to_chat_event(message) ==
    IF ~message.tags.some \/ message.prefix # "Nickname"
    THEN NoEvent
    ELSE LET tags == message.tags.v
             emotes == IF tags.emotes.some
                       THEN parse_emotes(split(tags.emotes.v, "/")) ELSE Nothing
             segments == IF emotes.some THEN segments_of(message.body, emotes.v)
                                        ELSE Nothing
             user_id == IF tags.user_id.some THEN parse_u64(tags.user_id.v) ELSE Nothing
             id == IF tags.id.some THEN parse_uuid(tags.id.v) ELSE Nothing
             sent_at == IF tags.ts.some THEN parse_i64(tags.ts.v) ELSE Nothing
             bits == bits_of(tags.bits)
         IN IF ~segments.some \/ ~user_id.some \/ ~id.some \/ ~sent_at.some
            THEN NoEvent
            ELSE ChatEvent(IF bits.some THEN "SendBits" ELSE "Message",
                           id.v, user_id.v, role_of(tags), bits, segments.v)

\* twitch::event::to_chat_event
to_chat_event(message) ==
    IF message.command = "PRIVMSG" THEN privmsg_to_chat_event(message)
    ELSE IF message.command = "RPL_NAMREPLY"
         THEN (IF message.args < 3 THEN Panic ELSE MemberChunk)
    ELSE IF message.command = "RPL_ENDOFNAMES" THEN EndOfMembers
    ELSE NoEvent

(***************************************************************************)
(* The IRC messages the Chat is given: PRIVMSGs around one well-formed     *)
(* message, varied group of tags by group of tags, and the other commands. *)
(***************************************************************************)
\* code points of a generated message body
MaxBody == 3

Message(command, args, tags, prefix, body) ==
    [command |-> command, args |-> args, tags |-> tags, prefix |-> prefix,
     body |-> body]

GoodId == "b34ccfc7-4977-403a-8a94-33c6bac34fb8"
GoodUserId == <<"1", "3", "3", "7">>
GoodTimestamp == <<"1", "5", "0", "7", "2", "4", "6", "5", "7", "2", "6", "7", "5">>
Hi == <<"h", "i">>

BaseTags ==
    [id |-> Some(GoodId), user_id |-> Some(GoodUserId), ts |-> Some(GoodTimestamp),
     emotes |-> Some(<< >>), badges |-> Nothing, user_type |-> Some(<< >>),
     mod |-> Some(<<"0">>), bits |-> Nothing]

KappaKappa == <<"K", "a", "p", "p", "a", " ", "K", "a", "p", "p", "a">>
AccentKappa == <<"é", " ", "K", "a", "p", "p", "a">>
KappaAccent == <<"K", "a", "p", "p", "a", " ", "é">>

Bodies ==
    UNION {[1..n -> {"a", "é"}] : n \in 0..MaxBody}
        \cup {KappaKappa, AccentKappa, KappaAccent}

\* values of the emotes tag; Nothing is the tag left out
EmoteTags ==
    {Nothing,
     Some(<< >>),   \* (empty)
     Some(<<"2", "5", ":", "0", "-", "0">>),   \* 25:0-0
     Some(<<"2", "5", ":", "0", "-", "1">>),   \* 25:0-1
     Some(<<"2", "5", ":", "1", "-", "2">>),   \* 25:1-2
     Some(<<"2", "5", ":", "2", "-", "2">>),   \* 25:2-2
     Some(<<"2", "5", ":", "0", "-", "0", ",", "2", "-", "2">>),   \* 25:0-0,2-2
     Some(<<"2", "5", ":", "2", "-", "2", ",", "0", "-", "0">>),   \* 25:2-2,0-0
     Some(<<"2", "5", ":", "0", "-", "0", "/", "3", "3", ":", "1", "-", "1">>),   \* 25:0-0/33:1-1
     Some(<<"3", "3", ":", "1", "-", "2", "/", "2", "5", ":", "0", "-", "0">>),   \* 33:1-2/25:0-0
     Some(<<"2", "5", ":", "0", "-", "4", ",", "6", "-", "1", "0">>),   \* 25:0-4,6-10
     Some(<<"2", "5", ":", "6", "-", "1", "0", ",", "0", "-", "4">>),   \* 25:6-10,0-4
     Some(<<"2", "5", ":", "2", "-", "6">>),   \* 25:2-6
     Some(<<"2", "5", ":", "0", "-", "4">>),   \* 25:0-4
     Some(<<"2", "5", ":", "0", "-", "4", "/">>),   \* 25:0-4/
     Some(<<"2", "5">>),   \* 25
     Some(<<"2", "5", ":", "a", "-", "1">>),   \* 25:a-1
     Some(<<"2", "5", ":", "3">>),   \* 25:3
     Some(<<"2", "5", ":", "2", "-", "1">>),   \* 25:2-1
     Some(<<"2", "5", ":", "0", "-", "1", "/", "3", "3", ":", "1", "-", "2">>),   \* 25:0-1/33:1-2
     Some(<<"2", "5", ":", "0", "-", "1", "1">>)}   \* 25:0-11

\* values of the user-id tag
UserIdTags ==
    {Nothing,
     Some(<<"1", "3", "3", "7">>),   \* 1337
     Some(<<"-", "5">>),   \* -5
     Some(<<"a", "b", "c">>),   \* abc
     Some(<<"1", "8", "4", "4", "6", "7", "4", "4", "0", "7", "3", "7", "0", "9", "5", "5", "1", "6", "1", "6">>)}   \* 18446744073709551616

\* values of the tmi-sent-ts tag
TimestampTags ==
    {Nothing,
     Some(<<"1", "5", "0", "7", "2", "4", "6", "5", "7", "2", "6", "7", "5">>),   \* 1507246572675
     Some(<<"s", "o", "o", "n">>)}   \* soon

\* values of the user-type tag
UserTypeTags ==
    {Nothing,
     Some(<< >>),   \* (empty)
     Some(<<"a", "d", "m", "i", "n">>),   \* admin
     Some(<<"g", "l", "o", "b", "a", "l", "_", "m", "o", "d">>),   \* global_mod
     Some(<<"s", "t", "a", "f", "f">>),   \* staff
     Some(<<"m", "o", "d">>)}   \* mod

\* values of the badges tag
BadgesTags ==
    {Nothing,
     Some(<< >>),   \* (empty)
     Some(<<"b", "r", "o", "a", "d", "c", "a", "s", "t", "e", "r", "/", "1">>),   \* broadcaster/1
     Some(<<"s", "u", "b", "s", "c", "r", "i", "b", "e", "r", "/", "1", "2", ",", "b", "r", "o", "a", "d", "c", "a", "s", "t", "e", "r", "/", "1">>),   \* subscriber/12,broadcaster/1
     Some(<<"m", "o", "d", "e", "r", "a", "t", "o", "r", "/", "1">>),   \* moderator/1
     Some(<<"b", "r", "o", "a", "d", "c", "a", "s", "t", "e", "r">>),   \* broadcaster
     Some(<<"b", "r", "o", "a", "d", "c", "a", "s", "t", "e", "r", "/", "1", ",", "v", "i", "p">>)}   \* broadcaster/1,vip

\* values of the bits tag
BitsTags ==
    {Nothing,
     Some(<< >>),   \* (empty)
     Some(<<"5", "0", "0">>),   \* 500
     Some(<<"0">>),   \* 0
     Some(<<"a", "b", "c">>),   \* abc
     Some(<<"4", "2", "9", "4", "9", "6", "7", "2", "9", "5">>),   \* 4294967295
     Some(<<"4", "2", "9", "4", "9", "6", "7", "2", "9", "6">>),   \* 4294967296
     Some(<<"+", "5">>),   \* +5
     Some(<<"0", "0", "7">>),   \* 007
     Some(<<"-", "1">>)}   \* -1

IdTags == {Nothing, Some(GoodId), Some("not-a-uuid")}
ModTags == {Nothing, Some(<<"0">>), Some(<<"1">>)}

SegmentMessages ==
    {Message("PRIVMSG", 2, Some([BaseTags EXCEPT !.emotes = e]), "Nickname", b) :
        e \in EmoteTags, b \in Bodies}

EnvelopeMessages ==
    {Message("PRIVMSG", 2, t, p, Hi) :
        t \in {Nothing} \cup
              {Some([BaseTags EXCEPT !.id = i, !.user_id = u, !.ts = ts]) :
                  i \in IdTags, u \in UserIdTags, ts \in TimestampTags},
        p \in {"Nickname", "ServerName", "None"}}

RoleMessages ==
    {Message("PRIVMSG", 2,
             Some([BaseTags EXCEPT !.user_type = ut, !.mod = m, !.badges = b]),
             "Nickname", Hi) :
        ut \in UserTypeTags, m \in ModTags, b \in BadgesTags}

BitsMessages ==
    {Message("PRIVMSG", 2, Some([BaseTags EXCEPT !.bits = b, !.emotes = e[1]]),
             "Nickname", e[2]) :
        b \in BitsTags,
        e \in {<<Some(<< >>), Hi>>,
               <<Some(<<"2", "5", ":", "0", "-", "4", ",", "6", "-", "1", "0">>), KappaKappa>>}}

OtherMessages ==
    {Message("RPL_NAMREPLY", 4, Nothing, "ServerName", << >>),
     Message("RPL_NAMREPLY", 2, Nothing, "ServerName", << >>),
     Message("RPL_ENDOFNAMES", 3, Nothing, "ServerName", << >>),
     Message("PING", 1, Nothing, "None", << >>),
     Message("JOIN", 1, Nothing, "Nickname", << >>)}

Messages ==
    SegmentMessages \cup EnvelopeMessages \cup RoleMessages \cup BitsMessages
        \cup OtherMessages

\* what a poll of the IRC client's stream returns
IrcOutcomes ==
    {PollPending, ReadyNone, ReadySome(Err([error |-> "irc"]))}
        \cup {ReadySome(Ok(m)) : m \in Messages}

Chat_poll_next_ends_on_skip(chat, next) ==
    LET translate == next.poll = "ReadySome" /\ next.item.ok
        ev == IF translate THEN to_chat_event(next.item.v) ELSE NoEvent
    IN [irc |-> IF next.poll = "ReadyNone" \/ (translate /\ ev.kind = "None")
                THEN "ended"
                ELSE IF translate /\ ev.kind = "panic" THEN "panicked" ELSE chat.irc,
        polled |-> TRUE,
        inner |-> next,
        res |-> IF translate
                THEN (IF ev.kind = "panic" THEN [poll |-> "panic"]
                      ELSE IF ev.kind = "None" THEN ReadyNone
                      ELSE ReadySome(Ok(ev)))
                ELSE next,
        woke |-> FALSE,
        after_skip |-> chat.woke]

\* Chat::poll_next, given what self.stream.poll_next_unpin(cx) returned
Chat_poll_next(chat, next) ==
    LET translate == next.poll = "ReadySome" /\ next.item.ok
        ev == IF translate THEN to_chat_event(next.item.v) ELSE NoEvent
    IN [irc |-> IF next.poll = "ReadyNone" THEN "ended"
                ELSE IF translate /\ ev.kind = "panic" THEN "panicked" ELSE chat.irc,
        polled |-> TRUE,
        inner |-> next,
        res |-> IF translate
                THEN (IF ev.kind = "panic" THEN [poll |-> "panic"]
                      ELSE IF ev.kind = "None" THEN PollPending
                      ELSE ReadySome(Ok(ev)))
                ELSE next,
        woke |-> translate /\ ev.kind = "None",
        after_skip |-> chat.woke]

TwitchInit ==
    /\ YouTubeIdle
    /\ multicast = Multicast_new
    /\ twitch = Chat_new
    /\ lookup = NoLookup
    /\ ExtrasIdle

\* one poll of the Chat while its IRC stream is open
ChatPoll ==
    /\ twitch.irc = "open"
    /\ \E next \in IrcOutcomes : twitch' = Chat_poll_next(twitch, next)
    /\ UNCHANGED <<youtube, multicast, lookup, extras>>

TwitchNext == ChatPoll

TwitchSpec == TwitchInit /\ [][TwitchNext]_vars

(***************************************************************************)
(* Claims about the Twitch Chat, over the last poll it made.               *)
(***************************************************************************)
\* the last poll was given an IRC message
GotMessage == twitch.polled /\ twitch.inner.poll = "ReadySome" /\ twitch.inner.item.ok
TheMessage == twitch.inner.item.v

\* the last poll produced an event
GotEvent == twitch.polled /\ twitch.res.poll = "ReadySome" /\ twitch.res.item.ok
TheEvent == twitch.res.item.v

\* a PRIVMSG whose id tag is not a UUID or whose user-id is not an unsigned
\* 64-bit integer, or a command the translation does not know
ListedAsUntranslatable(m) ==
    \/ /\ m.command = "PRIVMSG"
       /\ m.tags.some
       /\ \/ m.tags.v.id # Some(GoodId)
          \/ m.tags.v.user_id # Some(GoodUserId)
    \/ m.command \notin {"PRIVMSG", "RPL_NAMREPLY", "RPL_ENDOFNAMES"}

\* a PRIVMSG with every tag in order, from a user, without emotes
PlainPrivmsg(m) ==
    /\ m.command = "PRIVMSG"
    /\ m.prefix = "Nickname"
    /\ m.tags = Some(BaseTags)
    /\ m.body = Hi

\* C15: an IRC message that translates to no event (a PRIVMSG whose id is not
\* a UUID or whose user-id is not an unsigned 64-bit integer, or an unknown
\* command) yields neither an event nor an error: the poll schedules a wake-up
\* and returns pending, the stream stays open, and the poll that follows it
\* still delivers a well-formed message, an end-of-names or an IRC error.
C15_SkippedMessageKeepsStreamOpen ==
    /\ (GotMessage /\ ListedAsUntranslatable(TheMessage)) =>
           /\ twitch.res = PollPending
           /\ twitch.woke
           /\ twitch.irc = "open"
    /\ (GotMessage /\ twitch.after_skip /\ PlainPrivmsg(TheMessage)) =>
           /\ GotEvent
           /\ TheEvent.kind = "Message"
           /\ TheEvent.id = GoodId
           /\ TheEvent.user_id = GoodUserId
           /\ TheEvent.segments = <<Text(Hi)>>
    /\ (GotMessage /\ twitch.after_skip /\ TheMessage.command = "RPL_ENDOFNAMES") =>
           twitch.res = ReadySome(Ok(EndOfMembers))
    /\ (twitch.polled /\ twitch.after_skip /\ ~GotMessage) =>
           twitch.res = twitch.inner

C15_Witness ==
    /\ GotMessage
    /\ twitch.after_skip
    /\ PlainPrivmsg(TheMessage)
    /\ GotEvent
    /\ TheEvent.kind = "Message"

\* the occurrences the emotes tag of a message names, in tag order
OccurrencesOf(m) == parse_emotes(split(m.tags.v.emotes.v, "/")).v

\* a well-formed emotes tag: it parses, and its ranges are inclusive
\* code-point ranges inside the body that do not overlap
WellFormedEmotes(m) ==
    /\ m.tags.v.emotes.some
    /\ parse_emotes(split(m.tags.v.emotes.v, "/")).some
    /\ \A k \in 1..Len(OccurrencesOf(m)) :
           /\ OccurrencesOf(m)[k].start <= OccurrencesOf(m)[k].end
           /\ OccurrencesOf(m)[k].end < Len(m.body)
           /\ \A j \in 1..(k - 1) :
                  \/ OccurrencesOf(m)[j].end < OccurrencesOf(m)[k].start
                  \/ OccurrencesOf(m)[k].end < OccurrencesOf(m)[j].start

\* a PRIVMSG from a user, every tag in order but for what its emotes tag
\* and its body are
WellFormedPrivmsg(m) ==
    /\ m.command = "PRIVMSG"
    /\ m.prefix = "Nickname"
    /\ m.tags.some
    /\ m.tags.v.id = Some(GoodId)
    /\ m.tags.v.user_id = Some(GoodUserId)
    /\ m.tags.v.ts = Some(GoodTimestamp)
    /\ WellFormedEmotes(m)

RECURSIVE Concat(_)
\* the texts of Text and the names of Emote, one after another
Concat(segments) ==
    IF segments = << >> THEN << >> ELSE Head(segments).text \o Concat(Tail(segments))

\* C16: for every PRIVMSG with a well-formed emotes tag, the body pure ASCII
\* or with multi-byte characters, an event is produced and the concatenation
\* of its segments in order (text of Text, name of Emote) is the body.
C16_SegmentsReproduceBody ==
    (GotMessage /\ WellFormedPrivmsg(TheMessage)) =>
        /\ GotEvent
        /\ Concat(TheEvent.segments) = TheMessage.body

\* where segment p begins in the concatenation (zero-based code point)
Offset(segments, p) == Len(Concat(SubSeq(segments, 1, p - 1)))

\* the segments are those of body under the occurrences occs
SegmentsAsSpecified(segments, body, occs) ==
    IF occs = << >>
    THEN segments = <<Text(body)>>
    ELSE /\ Len(Concat(segments)) = Len(body)
         /\ Len(SelectSeq(segments, LAMBDA x : x.seg = "Emote")) = Len(occs)
         /\ \A p \in 1..Len(segments) :
                /\ segments[p].text =
                       SubSeq(body, Offset(segments, p) + 1,
                              Offset(segments, p) + Len(segments[p].text))
                /\ segments[p].seg = "Emote" =>
                       \E k \in 1..Len(occs) :
                           /\ occs[k].start = Offset(segments, p)
                           /\ occs[k].end = Offset(segments, p) + Len(segments[p].text) - 1
                           /\ occs[k].id = segments[p].id
                /\ segments[p].seg = "Text" =>
                       /\ segments[p].text # << >>
                       /\ p > 1 => segments[p - 1].seg = "Emote"

\* C17: the segments of a PRIVMSG are one Emote (name = the body's code
\* points start..=end, and the id) per emote occurrence, in order of start
\* whatever the order in the tag, a Text for each non-empty gap before an
\* emote and for a non-empty tail, no empty Text, and a single Text with the
\* whole body when the emotes tag is empty.
C17_SegmentStructure ==
    (GotMessage /\ WellFormedPrivmsg(TheMessage)) =>
        /\ GotEvent
        /\ SegmentsAsSpecified(TheEvent.segments, TheMessage.body,
                               OccurrencesOf(TheMessage))

\* the last poll translated a PRIVMSG to an event
TranslatedPrivmsg == GotMessage /\ TheMessage.command = "PRIVMSG" /\ GotEvent

\* a badges tag that is a list of name/version entries, one of them the
\* broadcaster's
BroadcasterBadge(tag) ==
    /\ tag.some
    /\ tag.v # << >>
    /\ \A i \in 1..Len(split(tag.v, ",")) : HasChar(split(tag.v, ",")[i], "/")
    /\ \E i \in 1..Len(split(tag.v, ",")) :
           \E n \in 1..Len(split(tag.v, ",")[i]) :
               /\ SubSeq(split(tag.v, ",")[i], 1, n - 1) = <<"b", "r", "o", "a", "d", "c", "a", "s", "t", "e", "r">>
               /\ split(tag.v, ",")[i][n] = "/"

RecognisedUserType(tag) ==
    tag \in {Some(<<"a", "d", "m", "i", "n">>), Some(<<"g", "l", "o", "b", "a", "l", "_", "m", "o", "d">>), Some(<<"s", "t", "a", "f", "f">>)}

\* C18: for every combination of the user-type, mod and badges tags the role
\* follows the priority user-type (admin, global_mod, staff) > mod=1
\* (Moderator) > broadcaster badge (Broadcaster) > Normal: a recognised
\* user-type wins over mod=1 and a broadcaster badge, mod=1 wins over a
\* broadcaster badge.
C18_RolePriority ==
    TranslatedPrivmsg =>
        LET tags == TheMessage.tags.v
        IN /\ tags.user_type = Some(<<"a", "d", "m", "i", "n">>) => TheEvent.role = "TwitchAdmin"
           /\ tags.user_type = Some(<<"g", "l", "o", "b", "a", "l", "_", "m", "o", "d">>) => TheEvent.role = "GlobalModerator"
           /\ tags.user_type = Some(<<"s", "t", "a", "f", "f">>) => TheEvent.role = "TwitchStaff"
           /\ (~RecognisedUserType(tags.user_type) /\ tags.mod = Some(<<"1">>)) =>
                  TheEvent.role = "Moderator"
           /\ (/\ ~RecognisedUserType(tags.user_type)
               /\ tags.mod # Some(<<"1">>)
               /\ BroadcasterBadge(tags.badges)) => TheEvent.role = "Broadcaster"
           /\ (/\ ~RecognisedUserType(tags.user_type)
               /\ tags.mod # Some(<<"1">>)
               /\ ~BroadcasterBadge(tags.badges)) => TheEvent.role = "Normal"

C18_Witness ==
    /\ TranslatedPrivmsg
    /\ TheMessage.tags.v.user_type = Some(<<"s", "t", "a", "f", "f">>)
    /\ TheMessage.tags.v.mod = Some(<<"1">>)
    /\ BroadcasterBadge(TheMessage.tags.v.badges)
    /\ TheEvent.role = "TwitchStaff"

\* C19 as the specification has it: a PRIVMSG whose bits tag is present and
\* not empty is translated to SendBits carrying that count and never to
\* Message; one whose bits tag is absent or empty is translated to Message.
C19_NonEmptyBitsIsSendBits ==
    TranslatedPrivmsg =>
        IF IsNonempty(TheMessage.tags.v.bits)
        THEN TheEvent.kind = "SendBits" /\ TheEvent.bits.some
        ELSE TheEvent.kind = "Message"

\* the decimal digits of a tag that is an integer from 1 to 2^32 - 1
Unsigned(s) == IF s # << >> /\ Head(s) = "+" THEN Tail(s) ELSE s
IsPositiveU32(tag) ==
    /\ tag.some
    /\ Unsigned(tag.v) # << >>
    /\ \A i \in 1..Len(Unsigned(tag.v)) : IsDigit(Unsigned(tag.v)[i])
    /\ StripZeros(Unsigned(tag.v)) # <<"0">>
    /\ DecimalLeq(StripZeros(Unsigned(tag.v)), U32Max)

\* C19: the event a PRIVMSG is translated to is SendBits, carrying the count,
\* exactly when its bits tag is a decimal integer from 1 to 2^32 - 1; with
\* the tag absent, empty, zero, not a number or too large it is Message.
C19_PositiveBitsIsSendBits ==
    TranslatedPrivmsg =>
        IF IsPositiveU32(TheMessage.tags.v.bits)
        THEN /\ TheEvent.kind = "SendBits"
             /\ TheEvent.bits = Some(StripZeros(Unsigned(TheMessage.tags.v.bits.v)))
        ELSE TheEvent.kind = "Message" /\ ~TheEvent.bits.some

C19_Witness ==
    /\ TranslatedPrivmsg
    /\ TheMessage.tags.v.bits = Some(<<"5", "0", "0">>)
    /\ TheMessage.body = KappaKappa
    /\ TheEvent.kind = "SendBits"
    /\ ValueOf(TheEvent.bits.v) = 500

(***************************************************************************)
(* ChatContext::new_from_channel (src/src/youtube/context.rs): the channel *)
(* identifier, the fetch of the channel's streams page, the ytInitialData  *)
(* on it, the Live tab and the choice of a video under the search options. *)
(* A success is the video id handed to ChatContext::new_from_live.         *)
(***************************************************************************)
\* items of a Live tab
MaxItems == 3

ChannelSearchOptions == {"LatestLiveOrUpcoming", "FirstLiveOrUpcoming", "FirstLive", "LatestLive"}

\* matches!(options, FirstLiveOrUpcoming | LatestLiveOrUpcoming)
PermitsUpcoming(options) == options \in {"FirstLiveOrUpcoming", "LatestLiveOrUpcoming"}

TimeStatus(style) == [overlay |-> "TimeStatus", style |-> style]
NowPlaying == [overlay |-> "NowPlaying", style |-> "none"]
VideoRenderer(video_id, thumbnail_overlays) ==
    [item |-> "RichItemRenderer", video_id |-> video_id,
     thumbnail_overlays |-> thumbnail_overlays]
ContinuationItemRenderer ==
    [item |-> "ContinuationItemRenderer", video_id |-> "none", thumbnail_overlays |-> << >>]

RECURSIVE any_overlay(_, _, _, _)
\* thumbnail_overlays.iter().any(..) of the finder: a Live overlay sets
\* live_id and ends the search, an Upcoming one may set live_id and goes on
any_overlay(overlays, video_id, options, live_id) ==
    IF overlays = << >>
    THEN [found |-> FALSE, live_id |-> live_id]
    ELSE IF Head(overlays) = TimeStatus("Live")
         THEN [found |-> TRUE, live_id |-> Some([video_id |-> video_id, live |-> TRUE])]
         ELSE any_overlay(Tail(overlays), video_id, options,
                          IF /\ Head(overlays) = TimeStatus("Upcoming")
                             /\ PermitsUpcoming(options)
                             /\ (live_id.some => ~live_id.v.live)
                          THEN Some([video_id |-> video_id, live |-> FALSE])
                          ELSE live_id)

\* the closure `finder` on one item of the grid
finder(c, options, live_id) ==
    IF c.item = "RichItemRenderer"
    THEN any_overlay(c.thumbnail_overlays, c.video_id, options, live_id)
    ELSE [found |-> FALSE, live_id |-> live_id]

RECURSIVE find(_, _, _)
\* Iterator::find(finder) over the items in iteration order
find(contents, options, live_id) ==
    IF contents = << >>
    THEN [found |-> FALSE, live_id |-> live_id]
    ELSE IF finder(Head(contents), options, live_id).found
         THEN finder(Head(contents), options, live_id)
         ELSE find(Tail(contents), options, finder(Head(contents), options, live_id).live_id)

\* Iterator::rev
Reverse(s) == [i \in 1..Len(s) |-> s[Len(s) + 1 - i]]

\* the RichGridRenderer arm: the iteration, `.ok_or_else(NoMatchingStream)?` on
\* what find returns, then `live_id.ok_or_else(NoMatchingStream)?`
select_stream(contents, options) ==
    LET f == find(IF options \in {"FirstLive", "FirstLiveOrUpcoming"}
                  THEN Reverse(contents) ELSE contents,
                  options, Nothing)
    IN IF ~f.found THEN Err("NoMatchingStream")
       ELSE IF ~f.live_id.some THEN Err("NoMatchingStream")
       ELSE Ok(f.live_id.v.video_id)

TabRenderer(title, content) == [tab |-> "TabRenderer", title |-> title, content |-> content]
ExpandableTabRenderer == [tab |-> "ExpandableTabRenderer", title |-> "none", content |-> Nothing]
RichGridRenderer(contents) == [feed |-> "RichGridRenderer", contents |-> contents]
OtherFeed == [feed |-> "Other", contents |-> << >>]

\* tabs.iter().find(..): the first TabRenderer titled "Live" that has content
IsLiveTab(tab) == tab.tab = "TabRenderer" /\ tab.content.some /\ tab.title = "Live"
HasLiveTab(tabs) == \E i \in 1..Len(tabs) : IsLiveTab(tabs[i])
LiveTab(tabs) ==
    tabs[CHOOSE i \in 1..Len(tabs) : IsLiveTab(tabs[i]) /\ \A j \in 1..(i - 1) : ~IsLiveTab(tabs[j])]

\* the streams page: how the fetch went, whether the ytInitialData regex
\* matched and its capture deserialized, and the tabs of the page
Page(fetch, initial_data, tabs) == [fetch |-> fetch, initial_data |-> initial_data, tabs |-> tabs]

\* str::starts_with
starts_with(s, p) == Len(p) <= Len(s) /\ SubSeq(s, 1, Len(p)) = p

\* what is left of s after its first n characters
Drop(s, n) == SubSeq(s, n + 1, Len(s))

AsciiLetters ==
    {"a", "b", "c", "d", "e", "f", "g", "h", "i", "j", "k", "l", "m", "n", "o", "p",
     "q", "r", "s", "t", "u", "v", "w", "x", "y", "z", "A", "B", "C", "D", "E", "F",
     "G", "H", "I", "J", "K", "L", "M", "N", "O", "P", "Q", "R", "S", "T", "U", "V",
     "W", "X", "Y", "Z"}

\* the regex class \d
Digits == {DigitChars[d] : d \in 1..10}

\* the characters of the regex class \w that occur in the inputs
WordChars == AsciiLetters \cup Digits \cup {"_", "é"}

\* the regex class [A-Za-z0-9-_]
IdChars == AsciiLetters \cup Digits \cup {"-", "_"}

\* an optional group of a regex followed by a literal that none of its
\* alternatives begins: the group is taken when it is there
skip_optional(s, alternatives) ==
    IF \E p \in alternatives : starts_with(s, p)
    THEN Drop(s, Len(CHOOSE p \in alternatives : starts_with(s, p)))
    ELSE s

\* ChatContext::parse_channel_link: the anchored regex
\* ^(?:https?:\/\/)?(?:www\.)?youtube\.com\/(?:channel\/(UC[\w-]{21}[AQgw])|(@[\w]+))$
parse_channel_link(url) ==
    LET host == skip_optional(skip_optional(url, {<<"h", "t", "t", "p", "s", ":", "/", "/">>, <<"h", "t", "t", "p", ":", "/", "/">>}),
                              {<<"w", "w", "w", ".">>})
        path == Drop(host, 12)
        id == Drop(path, 8)
    IN  IF ~starts_with(host, <<"y", "o", "u", "t", "u", "b", "e", ".", "c", "o", "m", "/">>) THEN Nothing
        ELSE IF starts_with(path, <<"c", "h", "a", "n", "n", "e", "l", "/">>)
        THEN IF /\ Len(id) = 24
                /\ SubSeq(id, 1, 2) = <<"U", "C">>
                /\ \A k \in 3..23 : id[k] \in WordChars \cup {"-"}
                /\ id[24] \in {"A", "Q", "g", "w"}
             THEN Some(id)
             ELSE Nothing
        ELSE IF /\ Len(path) >= 2
                /\ path[1] = "@"
                /\ \A k \in 2..Len(path) : path[k] \in WordChars
        THEN Some(path)
        ELSE Nothing

\* where the first match of youtu\.?be(?:\.com)? ends in url, 0 when there
\* is none
domain_end(url) ==
    LET Starts == {i \in 1..Len(url) :
                      \/ starts_with(Drop(url, i - 1), <<"y", "o", "u", "t", "u", "b", "e">>)
                      \/ starts_with(Drop(url, i - 1), <<"y", "o", "u", "t", "u", ".", "b", "e">>)}
        i == CHOOSE i \in Starts : \A j \in Starts : i <= j
        e == IF starts_with(Drop(url, i - 1), <<"y", "o", "u", "t", "u", "b", "e">>) THEN i + 6 ELSE i + 7
    IN  IF Starts = {} THEN 0
        ELSE IF starts_with(Drop(url, e), <<".", "c", "o", "m">>) THEN e + 4 ELSE e

\* ChatContext::parse_stream_link: the unanchored regex
\* (?:https?:\/\/)?(?:www\.)?youtu\.?be(?:\.com)?\/?.*(?:watch|embed)?(?:.*v=|v\/|\/)([A-Za-z0-9-_]+)
\* whose greedy .* leaves to the capture the run of id characters after the
\* last "/" or "v=" that has one
parse_stream_link(url) ==
    LET rest == Drop(url, domain_end(url))
        Separators == {k \in 1..(Len(rest) - 1) :
                          /\ rest[k + 1] \in IdChars
                          /\ \/ rest[k] = "/"
                             \/ rest[k] = "=" /\ k > 1 /\ rest[k - 1] = "v"}
        k == CHOOSE k \in Separators : \A j \in Separators : j <= k
        Ends == {n \in (k + 1)..Len(rest) : \A m \in (k + 1)..n : rest[m] \in IdChars}
        n == CHOOSE n \in Ends : \A m \in Ends : m <= n
    IN  IF domain_end(url) = 0 \/ Separators = {} THEN Nothing
        ELSE Some(SubSeq(rest, k + 1, n))

\* str::is_ascii
is_ascii(s) == \A k \in 1..Len(s) : len_utf8(s[k]) = 1

\* a lazy capture ['"](.+?)['"] or ['"]([\d.]+?)['"] on the text after the
\* opening quote: the shortest run of one character or more of the class
\* that a quote follows
lazy_capture(text, class) ==
    LET Ends == {n \in 1..(Len(text) - 1) :
                    /\ \A m \in 1..n : text[m] \in class
                    /\ text[n + 1] \in {"'", "\""}}
        n == CHOOSE n \in Ends : \A m \in Ends : n <= m
    IN  IF Ends = {} THEN Nothing ELSE Some(SubSeq(text, 1, n))

\* the characters a regex . matches that occur in the inputs
AnyChars == WordChars \cup {"-", ".", ",", ":", "'", "\"", "%", "="}

\* the text after the opening quote of a key of the page, when the page has
\* the key
capture_after(text, class) == IF text.some THEN lazy_capture(text.v, class) ELSE Nothing

DefaultClientVersion == <<"2", ".", "2", "0", "2", "4", "0", "2", "0", "7", ".", "0", "7", ".", "0", "0">>

\* the watch page: how the fetch went, which of the three markers it has,
\* and the text after the opening quote of each key the regexes look for
WatchPage(fetch, is_live_content, is_live_now, is_replay, api_key, tango, client_version, live_continuation, replay_continuation) ==
    [fetch |-> fetch, is_live_content |-> is_live_content, is_live_now |-> is_live_now,
     is_replay |-> is_replay, api_key |-> api_key, tango |-> tango,
     client_version |-> client_version, live_continuation |-> live_continuation,
     replay_continuation |-> replay_continuation]

\* the live status new_from_live gives a page, if any
classify_replay_first(page) ==
    IF ~page.is_live_content THEN Nothing
    ELSE IF page.is_replay THEN Some("Replay")
    ELSE IF page.is_live_now THEN Some("Live")
    ELSE Some("Upcoming")

classify(page) ==
    IF ~page.is_live_content THEN Nothing
    ELSE IF page.is_live_now THEN Some("Live")
    ELSE IF page.is_replay THEN Some("Replay")
    ELSE Some("Upcoming")

ChatContext(id, api_key, client_version, tango_api_key, initial_continuation, status) ==
    [id |-> id, api_key |-> api_key, client_version |-> client_version,
     tango_api_key |-> tango_api_key, initial_continuation |-> initial_continuation,
     live_status |-> status]

\* the id new_from_live looks up, if it accepts its argument
live_id_of(id) ==
    IF is_ascii(id) /\ str_len(id) = 11 THEN Some(id) ELSE parse_stream_link(id)

\* ChatContext::new_from_live
new_from_live(id, page) ==
    LET live_id == live_id_of(id)
        status == classify(page)
        api_key == capture_after(page.api_key, AnyChars)
        tango_api_key == capture_after(page.tango, AnyChars)
        version == capture_after(page.client_version, Digits \cup {"."})
        continuation ==
            IF updates_live(status.v)
            THEN capture_after(page.live_continuation, AnyChars)
            ELSE capture_after(page.replay_continuation, AnyChars)
    IN  IF ~live_id.some THEN Err("InvalidVideoID")
        ELSE IF page.fetch = "timeout" THEN Err("TimedOut")
        ELSE IF page.fetch = "failed" THEN Err("GeneralRequest")
        ELSE IF ~status.some THEN Err("NotStream")
        ELSE IF ~api_key.some THEN Err("NoInnerTubeKey")
        ELSE IF ~continuation.some THEN Err("NoChatContinuation")
        ELSE Ok(ChatContext(live_id.v, api_key.v,
                            IF version.some THEN version.v ELSE DefaultClientVersion,
                            tango_api_key, continuation.v, status.v))

\* the channel id new_from_channel looks up, if it accepts its argument
channel_id_of(channel_id) ==
    IF starts_with(channel_id, <<"U", "C">>) \/ starts_with(channel_id, <<"@">>)
    THEN Some(channel_id)
    ELSE parse_channel_link(channel_id)

\* the video new_from_channel selects on the streams page of the channel
select_video(channel_id, options, page) ==
    IF ~channel_id_of(channel_id).some THEN Err("InvalidChannelID")
    ELSE IF page.fetch = "timeout" THEN Err("TimedOut")
    ELSE IF page.fetch = "failed" THEN Err("GeneralRequest")
    ELSE IF page.initial_data = "no_match" THEN Err("NoChatContinuation")
    ELSE IF page.initial_data = "bad_json" THEN Err("Deserialization")
    ELSE IF ~HasLiveTab(page.tabs) THEN Err("NoMatchingStream")
    ELSE IF LiveTab(page.tabs).content.v.feed # "RichGridRenderer" THEN Err("NoMatchingStream")
    ELSE select_stream(LiveTab(page.tabs).content.v.contents, options)

\* ChatContext::new_from_channel
new_from_channel(channel_id, options, page, watch) ==
    LET selected == select_video(channel_id, options, page)
    IN  IF selected.ok THEN new_from_live(selected.v, watch) ELSE selected

VideoIds ==
    <<<<"d", "Q", "w", "4", "w", "9", "W", "g", "X", "c", "Q">>,
      <<"j", "N", "Q", "X", "A", "C", "9", "I", "V", "R", "w">>,
      <<"9", "b", "Z", "k", "p", "7", "q", "1", "9", "f", "0">>,
      <<"k", "J", "Q", "P", "7", "k", "i", "w", "5", "F", "k">>>>

\* what the thumbnail overlays of a video may be
OverlayLists ==
    {<< >>,
     <<TimeStatus("Live")>>,
     <<TimeStatus("Upcoming")>>,
     <<TimeStatus("Default")>>,
     <<TimeStatus("Default")>>,
     <<NowPlaying, TimeStatus("Upcoming"), TimeStatus("Live")>>}

\* the item at position i of a grid
ItemsAt(i) == {VideoRenderer(VideoIds[i], o) : o \in OverlayLists} \cup {ContinuationItemRenderer}

Grids ==
    UNION {{g \in [1..n -> UNION {ItemsAt(i) : i \in 1..n}] : \A i \in 1..n : g[i] \in ItemsAt(i)} :
              n \in 0..MaxItems}

HomeTab == TabRenderer("Home", Some(OtherFeed))

GridPages ==
    {Page("ok", "ok", <<HomeTab, ExpandableTabRenderer, TabRenderer("Live", Some(RichGridRenderer(g)))>>) :
        g \in Grids}

OneLive == <<VideoRenderer(VideoIds[1], <<TimeStatus("Live")>>)>>

OtherPages ==
    {Page("timeout", "ok", << >>),
     Page("failed", "ok", << >>),
     Page("ok", "no_match", << >>),
     Page("ok", "bad_json", << >>),
     Page("ok", "ok", << >>),
     Page("ok", "ok", <<HomeTab, ExpandableTabRenderer>>),
     Page("ok", "ok", <<HomeTab, TabRenderer("Live", Nothing)>>),
     Page("ok", "ok", <<HomeTab, TabRenderer("Live", Some(OtherFeed))>>),
     Page("ok", "ok", <<TabRenderer("Live", Nothing),
                        TabRenderer("Live", Some(RichGridRenderer(OneLive)))>>),
     Page("ok", "ok", <<TabRenderer("Live", Some(RichGridRenderer(OneLive)))>>)}

\* a channel id of the 24-character form
GoodChannelId == <<"U", "C", "u", "A", "X", "F", "k", "g", "s", "w", "1", "L", "7", "x", "a", "C", "f", "n", "d", "5", "J", "J", "O", "w">>

\* the identifiers new_from_channel is called with
Channels ==
    {<<"U", "C", "u", "A", "X", "F", "k", "g", "s", "w", "1", "L", "7", "x", "a", "C", "f", "n", "d", "5", "J", "J", "O", "w">>,
     <<"U", "C", "s", "h", "o", "r", "t">>,
     <<"@", "p", "y", "k", "e">>,
     <<"@">>,
     <<"h", "t", "t", "p", "s", ":", "/", "/", "w", "w", "w", ".", "y", "o", "u", "t", "u", "b", "e", ".", "c", "o", "m", "/", "c", "h", "a", "n", "n", "e", "l", "/", "U", "C", "u", "A", "X", "F", "k", "g", "s", "w", "1", "L", "7", "x", "a", "C", "f", "n", "d", "5", "J", "J", "O", "w">>,
     <<"h", "t", "t", "p", ":", "/", "/", "y", "o", "u", "t", "u", "b", "e", ".", "c", "o", "m", "/", "@", "p", "y", "k", "é">>,
     <<"y", "o", "u", "t", "u", "b", "e", ".", "c", "o", "m", "/", "@", "p", "y", "k", "e">>,
     <<"h", "t", "t", "p", "s", ":", "/", "/", "w", "w", "w", ".", "y", "o", "u", "t", "u", "b", "e", ".", "c", "o", "m", "/", "c", "h", "a", "n", "n", "e", "l", "/", "U", "C", "s", "h", "o", "r", "t">>,
     <<"h", "t", "t", "p", "s", ":", "/", "/", "w", "w", "w", ".", "y", "o", "u", "t", "u", "b", "e", ".", "c", "o", "m", "/", "c", "/", "p", "y", "k", "e">>,
     <<"h", "t", "t", "p", "s", ":", "/", "/", "w", "w", "w", ".", "y", "o", "u", "t", "u", "b", "e", ".", "c", "o", "m", "/", "@", "p", "y", "k", "e", "/", "s", "t", "r", "e", "a", "m", "s">>,
     <<"p", "y", "k", "e">>,
     <<>>}

\* the text after the opening quote of a key of the watch page
GoodApiKey == Some(<<"A", "I", "z", "a", "\"", ",">>)
GoodTangoKey == Some(<<"t", "a", "n", "g", "o", "\"">>)
GoodClientVersion == Some(<<"2", ".", "2", "0", "2", "4", "\"">>)
GoodLiveContinuation == Some(<<"0", "o", "f", "M", "y", "A", "N", "%", "3", "D", "\"">>)
GoodReplayContinuation == Some(<<"o", "p", "2", "w", "0", "w", "R", "%", "3", "D", "\"">>)

ApiKeyTexts == {GoodApiKey, Some(<<"\"", ",", "\"", "x", "\"", ":", "\"">>), Some(<<"A", "I", "z", "a">>), Nothing}
TangoTexts == {GoodTangoKey, Some(<<"t", "a", "n", "g", "o">>), Nothing}
ClientVersionTexts == {GoodClientVersion, Some(<<"\"">>), Some(<<"b", "e", "t", "a", "\"">>), Nothing}
ContinuationTexts == {GoodLiveContinuation, Some(<<"\"">>), Nothing}

LivePage ==
    WatchPage("ok", TRUE, TRUE, FALSE, GoodApiKey, GoodTangoKey, GoodClientVersion,
              GoodLiveContinuation, GoodReplayContinuation)

ReplayPage ==
    WatchPage("ok", TRUE, FALSE, TRUE, GoodApiKey, GoodTangoKey, GoodClientVersion,
              GoodLiveContinuation, GoodReplayContinuation)

\* the watch pages: every combination of the three markers with the API key
\* and the continuations there or not, and the pages that differ from a
\* well-formed one in one key or in how the fetch goes
WatchPages ==
    {WatchPage("ok", c, n, r, k, GoodTangoKey, GoodClientVersion, l, p) :
        c \in BOOLEAN, n \in BOOLEAN, r \in BOOLEAN, k \in {GoodApiKey, Nothing},
        l \in {GoodLiveContinuation, Nothing}, p \in {GoodReplayContinuation, Nothing}}
        \cup {[b EXCEPT !.fetch = f] : b \in {LivePage, ReplayPage}, f \in {"timeout", "failed"}}
        \cup {[b EXCEPT !.api_key = t] : b \in {LivePage, ReplayPage}, t \in ApiKeyTexts}
        \cup {[b EXCEPT !.tango = t] : b \in {LivePage, ReplayPage}, t \in TangoTexts}
        \cup {[b EXCEPT !.client_version = t] : b \in {LivePage, ReplayPage}, t \in ClientVersionTexts}
        \cup {[LivePage EXCEPT !.live_continuation = t] : t \in ContinuationTexts}
        \cup {[ReplayPage EXCEPT !.replay_continuation = t] : t \in ContinuationTexts}

\* the arguments new_from_live is called with: bare ids, links, and others
StreamIds ==
    {<<"d", "Q", "w", "4", "w", "9", "W", "g", "X", "c", "Q">>,
     <<"é", "Q", "w", "4", "w", "9", "W", "g", "X", "c">>,
     <<"h", "e", "l", "l", "o", " ", "w", "o", "r", "l", "d">>,
     <<"y", "o", "u", "t", "u", "b", "e", ".", "c", "o", "m">>,
     <<"h", "t", "t", "p", "s", ":", "/", "/", "w", "w", "w", ".", "y", "o", "u", "t", "u", "b", "e", ".", "c", "o", "m", "/", "w", "a", "t", "c", "h", "?", "v", "=", "d", "Q", "w", "4", "w", "9", "W", "g", "X", "c", "Q">>,
     <<"h", "t", "t", "p", "s", ":", "/", "/", "y", "o", "u", "t", "u", ".", "b", "e", "/", "d", "Q", "w", "4", "w", "9", "W", "g", "X", "c", "Q">>,
     <<"h", "t", "t", "p", "s", ":", "/", "/", "w", "w", "w", ".", "y", "o", "u", "t", "u", "b", "e", ".", "c", "o", "m", "/", "e", "m", "b", "e", "d", "/", "d", "Q", "w", "4", "w", "9", "W", "g", "X", "c", "Q">>,
     <<"h", "t", "t", "p", "s", ":", "/", "/", "w", "w", "w", ".", "y", "o", "u", "t", "u", "b", "e", ".", "c", "o", "m", "/", "w", "a", "t", "c", "h", "?", "v", "=", "d", "Q", "w", "4", "w", "9", "W", "g", "X", "c", "Q", "&", "t", "=", "1", "0">>,
     <<"h", "t", "t", "p", "s", ":", "/", "/", "w", "w", "w", ".", "y", "o", "u", "t", "u", "b", "e", ".", "c", "o", "m", "/", "w", "a", "t", "c", "h", "?", "v", "=", "d", "Q", "w", "4", "w", "9", "W", "g", "X", "c", "Q", "&", "p", "v", "=", "1">>,
     <<"h", "t", "t", "p", "s", ":", "/", "/", "y", "o", "u", "t", "u", ".", "b", "e", "/", "a", "b", "c">>,
     <<"h", "t", "t", "p", "s", ":", "/", "/", "w", "w", "w", ".", "y", "o", "u", "t", "u", "b", "e", ".", "c", "o", "m", "/", "@", "p", "y", "k", "e", "/", "l", "i", "v", "e">>,
     <<"h", "t", "t", "p", "s", ":", "/", "/", "v", "i", "m", "e", "o", ".", "c", "o", "m", "/", "w", "a", "t", "c", "h", "?", "v", "=", "d", "Q", "w", "4", "w", "9", "W", "g", "X", "c", "Q">>,
     <<"d", "Q", "w", "4", "w", "9", "W", "g", "X", "c">>,
     <<>>}

\* the calls of new_from_channel made here
Lookups ==
    {<<GoodChannelId, o, p, w>> :
        o \in ChannelSearchOptions, p \in GridPages,
        w \in {LivePage, [LivePage EXCEPT !.is_live_content = FALSE]}}
        \cup {<<c, o, p, LivePage>> : c \in Channels, o \in ChannelSearchOptions, p \in OtherPages}

LookupInit ==
    /\ YouTubeIdle
    /\ multicast = Multicast_new
    /\ twitch = Chat_new
    /\ lookup = NoLookup
    /\ ExtrasIdle

\* the call of ChatContext::new_from_channel that is to make the context
NewFromChannel ==
    /\ ~lookup.called
    /\ \E l \in Lookups :
        lookup' = [called |-> TRUE, fn |-> "new_from_channel", channel |-> l[1], options |-> l[2],
                   page |-> l[3], watch |-> l[4],
                   selected |-> select_video(l[1], l[2], l[3]),
                   result |-> new_from_channel(l[1], l[2], l[3], l[4])]
    /\ UNCHANGED <<youtube, multicast, twitch, extras>>

\* the call of ChatContext::new_from_live that is to make the context
NewFromLive ==
    /\ ~lookup.called
    /\ \E id \in StreamIds, w \in WatchPages :
        lookup' = [called |-> TRUE, fn |-> "new_from_live", id |-> id, watch |-> w,
                   result |-> new_from_live(id, w)]
    /\ UNCHANGED <<youtube, multicast, twitch, extras>>

LookupNext == NewFromChannel \/ NewFromLive

LookupSpec == LookupInit /\ [][LookupNext]_vars

(***************************************************************************)
(* Claims about the channel lookup, over the last call made.               *)
(***************************************************************************)
\* the last call was of new_from_channel, or of new_from_live
CalledChannel == lookup.called /\ lookup.fn = "new_from_channel"
CalledLive == lookup.called /\ lookup.fn = "new_from_live"

\* the call failed with the error e
Failed(r, e) == ~r.ok /\ r.v = e

\* the last call got as far as the items of a Live tab
ReachedGrid ==
    /\ CalledChannel
    /\ channel_id_of(lookup.channel).some
    /\ lookup.page.fetch = "ok"
    /\ lookup.page.initial_data = "ok"
    /\ HasLiveTab(lookup.page.tabs)
    /\ LiveTab(lookup.page.tabs).content.v.feed = "RichGridRenderer"

TheItems == LiveTab(lookup.page.tabs).content.v.contents

HasStatus(c, style) ==
    /\ c.item = "RichItemRenderer"
    /\ \E k \in 1..Len(c.thumbnail_overlays) : c.thumbnail_overlays[k] = TimeStatus(style)

\* C20: under FirstLiveOrUpcoming and LatestLiveOrUpcoming, when no item of
\* the Live tab is Live but at least one is Upcoming, new_from_channel
\* selects the video of an Upcoming item and does not fail with
\* NoMatchingStream; under FirstLive and LatestLive the same page gives
\* NoMatchingStream.
C20_UpcomingSelectedWhenNoneLive ==
    (/\ ReachedGrid
     /\ \A i \in 1..Len(TheItems) : ~HasStatus(TheItems[i], "Live")
     /\ \E i \in 1..Len(TheItems) : HasStatus(TheItems[i], "Upcoming")) =>
        IF PermitsUpcoming(lookup.options)
        THEN /\ lookup.selected.ok
             /\ \E i \in 1..Len(TheItems) :
                    /\ HasStatus(TheItems[i], "Upcoming")
                    /\ lookup.selected.v = TheItems[i].video_id
             /\ ~Failed(lookup.result, "NoMatchingStream")
        ELSE Failed(lookup.result, "NoMatchingStream")

\* the positions of the Live items of the Live tab
LiveItems == {i \in 1..Len(TheItems) : HasStatus(TheItems[i], "Live")}
FirstLiveItem == CHOOSE i \in LiveItems : \A j \in LiveItems : i <= j
LastLiveItem == CHOOSE i \in LiveItems : \A j \in LiveItems : j <= i

\* C21: when some item of the Live tab is Live, a Live item is selected
\* under every policy, Upcoming items earlier in the iteration or not; the
\* "First" policies go through the page's items forward and select the
\* first Live item, the "Latest" policies go through them in reverse and
\* select the last one.
C21_FirstForwardLatestReverse ==
    (ReachedGrid /\ LiveItems # {}) =>
        /\ lookup.selected.ok
        /\ lookup.selected.v =
               IF lookup.options \in {"FirstLive", "FirstLiveOrUpcoming"}
               THEN TheItems[FirstLiveItem].video_id
               ELSE TheItems[LastLiveItem].video_id

\* the three forms of a channel identifier: the 24-character UC id, the
\* @handle, and the channel URL
IsChannelId(c) ==
    /\ Len(c) = 24
    /\ SubSeq(c, 1, 2) = <<"U", "C">>
    /\ \A k \in 3..24 : c[k] \in WordChars \cup {"-"}
IsHandle(c) == Len(c) >= 2 /\ c[1] = "@" /\ \A k \in 2..Len(c) : c[k] \in WordChars
IsChannelLink(c) == parse_channel_link(c).some
AcceptedForm(c) == IsChannelId(c) \/ IsHandle(c) \/ IsChannelLink(c)

\* the page has a qualifying item under the policy
HasQualifyingItem ==
    /\ ReachedGrid
    /\ \E i \in 1..Len(TheItems) :
          \/ HasStatus(TheItems[i], "Live")
          \/ PermitsUpcoming(lookup.options) /\ HasStatus(TheItems[i], "Upcoming")

\* C23: new_from_channel maps each failure cause to its error kind: an
\* identifier of none of the three accepted forms gives InvalidChannelID, a
\* page on which the ytInitialData regex does not match gives
\* MissingInitialData, and a page without a qualifying item gives
\* NoMatchingStream.
C23_ErrorKinds ==
    CalledChannel =>
        IF ~AcceptedForm(lookup.channel) THEN Failed(lookup.result, "InvalidChannelID")
        ELSE IF lookup.page.fetch # "ok" THEN TRUE
        ELSE IF lookup.page.initial_data = "no_match" THEN Failed(lookup.result, "MissingInitialData")
        ELSE IF lookup.page.initial_data = "bad_json" THEN TRUE
        ELSE ~HasQualifyingItem => Failed(lookup.result, "NoMatchingStream")

(***************************************************************************)
(* Claims about new_from_live, over the last call made.                    *)
(***************************************************************************)
\* the last call of new_from_live got its watch page
GotWatchPage == CalledLive /\ live_id_of(lookup.id).some /\ lookup.watch.fetch = "ok"

\* the status the three markers of a page stand for
MarkedStatus(page) ==
    IF page.is_live_now THEN "Live" ELSE IF page.is_replay THEN "Replay" ELSE "Upcoming"

\* C22: new_from_live classifies a watch page by three markers: without
\* isLiveContent:true the result is the NotStream error, the API key and
\* the continuations there or not; with it the result is not NotStream, and
\* the status of the context is Live when isLiveNow:true is present, else
\* Replay when isReplay:true is present, else Upcoming, whatever the API
\* key and the continuations are.
C22_ClassifiedByMarkers ==
    GotWatchPage =>
        IF lookup.watch.is_live_content
        THEN /\ ~Failed(lookup.result, "NotStream")
             /\ lookup.result.ok => lookup.result.v.live_status = MarkedStatus(lookup.watch)
        ELSE Failed(lookup.result, "NotStream")

C22_Witness ==
    /\ GotWatchPage
    /\ lookup.watch.is_live_content /\ lookup.watch.is_live_now /\ lookup.watch.is_replay
    /\ lookup.result.ok
    /\ lookup.result.v.live_status = "Live"

\* the NotStream error of a page that has no API key either
C22_WitnessNotStream ==
    /\ GotWatchPage
    /\ ~lookup.watch.is_live_content /\ lookup.watch.is_live_now
    /\ ~lookup.watch.api_key.some
    /\ Failed(lookup.result, "NotStream")

\* the last call of new_from_live returned a context
GotContext == CalledLive /\ lookup.result.ok
TheContext == lookup.result.v

\* C27: every ChatContext returned by new_from_live has an 11-character
\* video id and a non-empty API key, client version and initial
\* continuation, for every accepted input and every page (the signaling API
\* key may be absent).
C27_ContextFieldsWellFormed ==
    GotContext =>
        /\ Len(TheContext.id) = 11
        /\ TheContext.api_key # << >>
        /\ TheContext.client_version # << >>
        /\ TheContext.initial_continuation # << >>

(***************************************************************************)
(* The chat page: the body of a get_live_chat response, its                *)
(* deserialization into GetLiveChatResponse, and                           *)
(* GetLiveChatResponse::fetch.                                             *)
(***************************************************************************)
\* the most nested actions a replayChatItemAction of a body holds
MaxNested == 3

\* a JSON object that is told apart by its one key: an action container or
\* a chat item
Keyed(key, value) == [key |-> key, value |-> value]

\* the variants of Action by their keys
ActionKeys ==
    {"addChatItemAction", "removeChatItemAction", "removeChatItemByAuthorAction",
     "addLiveChatTickerItemAction", "replayChatItemAction",
     "liveChatReportModerationStateCommand"}

\* the variant of ChatItem a key stands for
ChatItemVariant(key) ==
    CASE key = "liveChatTextMessageRenderer" -> "TextMessage"
      [] key = "liveChatPaidMessageRenderer" -> "Superchat"
      [] key = "liveChatMembershipItemRenderer" -> "MembershipItem"
      [] key = "liveChatPaidStickerRenderer" -> "PaidSticker"
      [] key = "liveChatSponsorshipsGiftPurchaseAnnouncementRenderer" -> "MembershipGift"
      [] key = "liveChatSponsorshipsGiftRedemptionAnnouncementRenderer" -> "MembershipGiftRedemption"
      [] key = "liveChatViewerEngagementMessageRenderer" -> "ViewerEngagement"
      [] OTHER -> "unknown"

\* the renderer of a chat item: its id, whether it has a message, and how
\* many thumbnails its author photo has
Renderer(id, message, thumbnails) == [id |-> id, message |-> message, thumbnails |-> thumbnails]

\* serde's derived Deserialize of ChatItem, an externally tagged enum with
\* no catch-all variant
deserialize_item(json) ==
    IF ChatItemVariant(json.key) = "unknown" THEN Err("Deserialization")
    ELSE Ok([variant |-> ChatItemVariant(json.key), renderer |-> json.value])

RECURSIVE deserialize_actions(_)
\* serde's derived Deserialize of ActionContainer: the flattened Action is
\* an externally tagged enum with no catch-all variant
deserialize_action(json) ==
    IF json.key \notin ActionKeys THEN Err("Deserialization")
    ELSE IF json.key = "addChatItemAction"
    THEN LET item == deserialize_item(json.value.item)
         IN  IF item.ok THEN Ok([kind |-> "AddChatItem", item |-> item.v]) ELSE item
    ELSE IF json.key = "replayChatItemAction"
    THEN LET actions == deserialize_actions(json.value.actions)
         IN  IF actions.ok
             THEN Ok([kind |-> "ReplayChat", actions |-> actions.v,
                      video_offset_time_msec |-> json.value.video_offset_time_msec])
             ELSE actions
    ELSE IF json.key = "removeChatItemAction"
    THEN Ok([kind |-> "RemoveChatItem", target_item_id |-> json.value.target_item_id])
    ELSE IF json.key = "removeChatItemByAuthorAction"
    THEN Ok([kind |-> "RemoveChatItemByAuthor", external_channel_id |-> json.value.external_channel_id])
    ELSE IF json.key = "addLiveChatTickerItemAction"
    THEN Ok([kind |-> "AddLiveChatTicker", item |-> json.value.item])
    ELSE Ok([kind |-> "LiveChatReportModerationStateCommand", opaque |-> json.value])

\* Vec<ActionContainer>: the first entry that fails fails the whole
deserialize_actions(json) ==
    IF json = << >> THEN Ok(<< >>)
    ELSE LET first == deserialize_action(Head(json))
             others == deserialize_actions(Tail(json))
         IN  IF ~first.ok THEN first
             ELSE IF ~others.ok THEN others
             ELSE Ok(<<first.v>> \o others.v)

\* the body of a response: bytes that are JSON or not, and if they are, the
\* continuationContents of the object and its actions, each there or not
Body(json, continuation_contents) == [json |-> json, continuation_contents |-> continuation_contents]
NotJsonBody == Body(FALSE, Nothing)

\* simd_json::from_slice into GetLiveChatResponse
from_slice(body) ==
    IF ~body.json THEN Err("Deserialization")
    ELSE IF ~body.continuation_contents.some THEN Ok([continuation_contents |-> Nothing])
    ELSE IF ~body.continuation_contents.v.actions.some
    THEN Ok([continuation_contents |-> Some([actions |-> Nothing])])
    ELSE LET actions == deserialize_actions(body.continuation_contents.v.actions.v)
         IN  IF actions.ok
             THEN Ok([continuation_contents |-> Some([actions |-> Some(actions.v)])])
             ELSE actions

\* what the server does with the POST: the send fails, the body cannot be
\* read, or the body arrives
Exchange(send, read, body) == [send |-> send, read |-> read, body |-> body]

\* SimdJsonResponseBody::simd_json of the response
simd_json(exchange) ==
    IF exchange.read = "timeout" THEN Err("TimedOut")
    ELSE IF exchange.read = "failed" THEN Err("GeneralRequest")
    ELSE from_slice(exchange.body)

\* how a call ends: it returns a Result, or it panics
Returned(r) == [panicked |-> FALSE, result |-> r]
Panicked == [panicked |-> TRUE]

\* GetLiveChatResponse::fetch: send().await? and then
\* simd_json().await.unwrap()
fetch(exchange) ==
    IF exchange.send = "timeout" THEN Returned(Err("TimedOut"))
    ELSE IF exchange.send = "failed" THEN Returned(Err("GeneralRequest"))
    ELSE IF simd_json(exchange).ok THEN Returned(Ok(simd_json(exchange).v))
    ELSE Panicked

(***************************************************************************)
(* YouTubeChatPageProcessor: the queue of the actions of a response and    *)
(* the iterator over its chat messages.                                    *)
(***************************************************************************)
\* the optional fields the iterator reads of an action and of a chat item
replay_chat_item_action(action) == IF action.kind = "ReplayChat" THEN Some(action) ELSE Nothing
add_chat_item_action(action) == IF action.kind = "AddChatItem" THEN Some(action) ELSE Nothing
live_chat_text_message_renderer(item) ==
    IF item.variant = "TextMessage" THEN Some(item.renderer) ELSE Nothing
live_chat_paid_message_renderer(item) ==
    IF item.variant = "Superchat" THEN Some(item.renderer) ELSE Nothing

\* YouTubeChatPageProcessor::new
YouTubeChatPageProcessor_new(response) ==
    IF ~response.continuation_contents.some THEN Err("MissingContinuationContents")
    ELSE IF ~response.continuation_contents.v.actions.some THEN Err("EndOfContinuation")
    ELSE Ok(response.continuation_contents.v.actions.v)

\* the test of the for loop of next: an added text message or paid message
\* that has a message
is_chat_message(action) ==
    /\ add_chat_item_action(action).some
    /\ LET item == add_chat_item_action(action).v.item
       IN  IF live_chat_text_message_renderer(item).some
           THEN live_chat_text_message_renderer(item).v.message.some
           ELSE /\ live_chat_paid_message_renderer(item).some
                /\ live_chat_paid_message_renderer(item).v.message.some

\* the for loop of next over the nested actions of a wrapper: it stops at
\* the first chat message
first_chat_message(actions) ==
    LET Found == {i \in 1..Len(actions) : is_chat_message(actions[i])}
    IN  IF Found = {} THEN Nothing
        ELSE Some(actions[CHOOSE i \in Found : \A j \in Found : i <= j])

\* the ChatMessage made of the action found (the last thumbnail of the
\* author photo is its avatar)
ChatMessage(action, time_delta) ==
    LET item == action.item
        is_super == live_chat_paid_message_renderer(item).some
        renderer == item.renderer
    IN  IF renderer.thumbnails = 0 THEN Panicked
        ELSE Returned(Some([id |-> renderer.id, runs |-> renderer.message.v, is_super |-> is_super,
                            time_delta |-> time_delta]))

RECURSIVE Iterator_next(_)
\* Iterator::next of the processor on the queue: what it returns and the
\* queue it leaves
Iterator_next(actions) ==
    IF actions = << >> THEN [out |-> Returned(Nothing), actions |-> << >>]
    ELSE LET action == Head(actions)
             replay == replay_chat_item_action(action)
             found == IF replay.some THEN first_chat_message(replay.v.actions) ELSE Nothing
         IN  IF found.some
             THEN [out |-> ChatMessage(found.v, replay.v.video_offset_time_msec),
                   actions |-> Tail(actions)]
             ELSE Iterator_next(Tail(actions))

\* LocalizedRun: a run of text, or an emoji with the label of its image, if
\* any, and its is_custom_emoji, if any
LocalizedRun_Text(text) == [run |-> "Text", text |-> text]
LocalizedRun_Emoji(label, is_custom_emoji) ==
    [run |-> "Emoji", label |-> label, is_custom_emoji |-> is_custom_emoji]

\* the actions of the bodies
HiMessage == Some(<<LocalizedRun_Text(Hi)>>)
AddItem(key, renderer) == Keyed("addChatItemAction", [item |-> Keyed(key, renderer)])
TextA == AddItem("liveChatTextMessageRenderer", Renderer("A", HiMessage, 1))
TextB == AddItem("liveChatTextMessageRenderer", Renderer("B", HiMessage, 2))
SuperC == AddItem("liveChatPaidMessageRenderer", Renderer("C", HiMessage, 1))
TextNoMessage == AddItem("liveChatTextMessageRenderer", Renderer("D", Nothing, 1))
TextNoPhoto == AddItem("liveChatTextMessageRenderer", Renderer("E", HiMessage, 0))
GiftF == AddItem("liveChatSponsorshipsGiftPurchaseAnnouncementRenderer", Renderer("F", Nothing, 1))
PlaceholderG == AddItem("liveChatPlaceholderItemRenderer", Renderer("G", Nothing, 0))
RemoveA == Keyed("removeChatItemAction", [target_item_id |-> "A"])
RemoveByAuthor == Keyed("removeChatItemByAuthorAction", [external_channel_id |-> "UC1"])
Ticker ==
    Keyed("addLiveChatTickerItemAction",
          [item |-> Keyed("liveChatTickerPaidMessageItemRenderer", [id |-> "C"])])
ModerationState == Keyed("liveChatReportModerationStateCommand", [state |-> "on"])
MarkDeleted == Keyed("markChatItemAsDeletedAction", [target_item_id |-> "A"])
Wrapper(actions) ==
    Keyed("replayChatItemAction", [actions |-> actions, video_offset_time_msec |-> 1000])

\* the sequences of at most n members of S
SeqsUpTo(S, n) == UNION {[1..k -> S] : k \in 0..n}

\* the wrappers of the replay bodies
Wrappers == {Wrapper(a) : a \in SeqsUpTo({TextA, TextB, SuperC, TextNoMessage, RemoveA}, MaxNested)}

ActionsBody(actions) == Body(TRUE, Some([actions |-> Some(actions)]))

\* a replay body holds one wrapper, or one and another after it
ReplayBodies ==
    {ActionsBody(<<w>>) : w \in Wrappers}
        \cup {ActionsBody(<<w, v>>) :
                 w \in Wrappers, v \in {Wrapper(<<TextB>>), Wrapper(<<RemoveA, SuperC, TextA>>)}}
        \cup {ActionsBody(<<Wrapper(a)>>) :
                 a \in {<<TextNoPhoto>>, <<TextA, TextNoPhoto>>, <<GiftF, TextA>>}}

\* a live body holds at most two actions, of known keys or not
LiveBodies ==
    {ActionsBody(a) :
        a \in SeqsUpTo({TextA, GiftF, RemoveA, RemoveByAuthor, Ticker, ModerationState,
                        MarkDeleted, PlaceholderG, Wrapper(<<TextA, MarkDeleted>>)}, 2)}

OtherBodies == {NotJsonBody, Body(TRUE, Nothing), Body(TRUE, Some([actions |-> Nothing]))}

Exchanges ==
    {Exchange("ok", "ok", b) : b \in ReplayBodies \cup LiveBodies \cup OtherBodies}
        \cup {Exchange("timeout", "ok", NotJsonBody), Exchange("failed", "ok", NotJsonBody),
              Exchange("ok", "timeout", NotJsonBody), Exchange("ok", "failed", NotJsonBody)}

PageInit ==
    /\ YouTubeIdle
    /\ multicast = Multicast_new
    /\ twitch = Chat_new
    /\ lookup = NoLookup
    /\ ExtrasIdle

pageframe == <<youtube, multicast, twitch, lookup, applied, requests, classified>>

\* the call of GetLiveChatResponse::fetch for a page
Fetch ==
    /\ processor.pc = "none"
    /\ \E x \in Exchanges :
        processor' = [pc |-> "fetched", exchange |-> x, fetched |-> fetch(x)]
    /\ UNCHANGED pageframe

\* the caller makes the processor of the response it got
ProcessorNew ==
    /\ processor.pc = "fetched"
    /\ ~processor.fetched.panicked
    /\ processor.fetched.result.ok
    /\ LET new == YouTubeChatPageProcessor_new(processor.fetched.result.v)
       IN  processor' =
               [pc |-> IF new.ok THEN "iterating" ELSE "no_processor",
                exchange |-> processor.exchange, fetched |-> processor.fetched, new |-> new,
                actions |-> IF new.ok THEN new.v ELSE << >>, delivered |-> << >>]
    /\ UNCHANGED pageframe

\* the caller takes the next chat message of the processor
ProcessorNext ==
    /\ processor.pc = "iterating"
    /\ LET next == Iterator_next(processor.actions)
       IN  processor' =
               [processor EXCEPT
                   !.pc = IF next.out.panicked THEN "panicked"
                          ELSE IF next.out.result.some THEN "iterating"
                          ELSE "done",
                   !.actions = next.actions,
                   !.delivered = IF ~next.out.panicked /\ next.out.result.some
                                 THEN Append(@, next.out.result.v)
                                 ELSE @]
    /\ UNCHANGED pageframe

PageNext == Fetch \/ ProcessorNew \/ ProcessorNext

PageSpec == PageInit /\ [][PageNext]_vars

(***************************************************************************)
(* Claims about the chat page, over the page fetched last.                 *)
(***************************************************************************)
\* the body of the page arrived
GotBody ==
    /\ processor.pc # "none"
    /\ processor.exchange.send = "ok"
    /\ processor.exchange.read = "ok"
TheBody == processor.exchange.body

\* the body is a JSON object with actions
HasActions ==
    /\ GotBody
    /\ TheBody.json
    /\ TheBody.continuation_contents.some
    /\ TheBody.continuation_contents.v.actions.some
TheJsonActions == TheBody.continuation_contents.v.actions.v

RECURSIVE AllKeysKnown(_)
\* every key of an action, of its item and of its nested actions is one of
\* the recognised ones
AllKeysKnown(json) ==
    /\ json.key \in ActionKeys
    /\ json.key = "addChatItemAction" => ChatItemVariant(json.value.item.key) # "unknown"
    /\ json.key = "replayChatItemAction" =>
           \A i \in 1..Len(json.value.actions) : AllKeysKnown(json.value.actions[i])

\* the fetch returned a response with actions
FetchedActions ==
    /\ ~processor.fetched.panicked
    /\ processor.fetched.result.ok
    /\ processor.fetched.result.v.continuation_contents.some
    /\ processor.fetched.result.v.continuation_contents.v.actions.some
TheActions == processor.fetched.result.v.continuation_contents.v.actions.v

\* C24: a chat-fetch response that contains an action, or a chat item
\* renderer, whose key is not one of the recognised ones deserializes
\* without error: the fetch returns a response with one entry for each
\* action of the body, and the entries of the actions whose keys are all
\* recognised are these actions.
C24_UnknownKeysTolerated ==
    HasActions =>
        /\ FetchedActions
        /\ Len(TheActions) = Len(TheJsonActions)
        /\ \A i \in 1..Len(TheJsonActions) :
               AllKeysKnown(TheJsonActions[i]) =>
                   TheActions[i] = deserialize_action(TheJsonActions[i]).v

\* C25: a chat-fetch response body that fails to deserialize makes the
\* fetch return a Deserialization error to its caller; the call does not
\* panic.
C25_DeserializationErrorReturned ==
    (GotBody /\ ~from_slice(TheBody).ok) =>
        /\ ~processor.fetched.panicked
        /\ Failed(processor.fetched.result, "Deserialization")

RECURSIVE NestedChatMessages(_)
\* the chat messages nested in the wrappers of a response, in server order
NestedChatMessages(actions) ==
    IF actions = << >> THEN << >>
    ELSE (IF Head(actions).kind = "ReplayChat"
          THEN SelectSeq(Head(actions).actions, is_chat_message)
          ELSE << >>)
         \o NestedChatMessages(Tail(actions))

\* the processor went through the whole of a replay response
ReplayDone ==
    /\ processor.pc = "done"
    /\ \A i \in 1..Len(TheActions) : TheActions[i].kind = "ReplayChat"

\* C26: for a replay response, every nested chat message of every
\* ReplayChat wrapper is delivered, in server order: as many messages are
\* delivered as there are nested chat messages, none being skipped when a
\* wrapper holds more than one.
C26_EveryNestedMessageDelivered ==
    ReplayDone =>
        /\ Len(processor.delivered) = Len(NestedChatMessages(TheActions))
        /\ \A i \in 1..Len(processor.delivered) :
               processor.delivered[i].id = NestedChatMessages(TheActions)[i].item.renderer.id

(***************************************************************************)
(* The values of a chat page: the runs of a message and the timestamp of   *)
(* a renderer.                                                             *)
(***************************************************************************)
\* to_chat_string that takes an emoji for a custom one whenever its
\* is_custom_emoji is there
to_chat_string_custom_when_present(run) ==
    IF run.run = "Text" THEN Returned(run.text)
    ELSE IF ~run.label.some THEN Panicked
    ELSE IF run.is_custom_emoji.some THEN Returned(<<":">> \o run.label.v \o <<":">>)
    ELSE Returned(run.label.v)

\* LocalizedRun::to_chat_string; the label is that of the accessibility of
\* the image of the emoji, which is unwrapped
to_chat_string(run) ==
    IF run.run = "Text" THEN Returned(run.text)
    ELSE IF ~run.label.some THEN Panicked
    ELSE IF run.is_custom_emoji = Some(TRUE) THEN Returned(<<":">> \o run.label.v \o <<":">>)
    ELSE Returned(run.label.v)

\* a JSON value given to a field that is a number or a string: its form
\* and its text
NumberValue(text) == [form |-> "number", text |-> text]
StringValue(text) == [form |-> "string", text |-> text]

\* serde_aux's deserialize_number_from_string::<i64>: a string is parsed,
\* a number has to be an i64; the number is kept as its sign and the
\* decimal digits of its magnitude
deserialize_number_from_string(value) ==
    IF parse_i64(value.text).some
    THEN Some([negative |-> value.text # << >> /\ Head(value.text) = "-"
                                /\ parse_i64(value.text).v # <<"0">>,
               digits |-> parse_i64(value.text).v])
    ELSE Nothing

\* the decimal digits of magnitude / 1_000_000 and the value of
\* magnitude % 1_000_000
DivMillion(digits) == IF Len(digits) <= 6 THEN <<"0">> ELSE SubSeq(digits, 1, Len(digits) - 6)
ModMillion(digits) ==
    IF Len(digits) <= 6 THEN ValueOf(digits) ELSE ValueOf(SubSeq(digits, Len(digits) - 5, Len(digits)))

\* the most seconds NaiveDateTime::from_timestamp_opt takes
MaxTimestampSeconds == <<"8", "2", "1", "0", "2", "6", "6", "8", "7", "6", "7", "9", "9">>

\* a timestamp: whole seconds since the epoch, by sign and digits, and the
\* nanoseconds of the second
Timestamp(negative, seconds, nanos) == [negative |-> negative, seconds |-> seconds, nanos |-> nanos]

\* the conversion that keeps the milliseconds only
timestamp_of_millis(number) ==
    {Returned(Ok(Timestamp(FALSE, DivMillion(number.digits),
                           (ModMillion(number.digits) \div 1000) * 1000000)))}

\* what deserialize_datetime_utc_from_microseconds makes of the number: the
\* ways it can end. The remainder of a negative number wraps in the cast to
\* u32; the multiplication by 1_000 then overflows, which panics in a build
\* with overflow checks and otherwise gives nanoseconds that
\* from_timestamp_opt refuses
timestamp_of(number) ==
    IF number.negative /\ ModMillion(number.digits) # 0
    THEN {Panicked, Returned(Err("Couldn't parse the timestamp"))}
    ELSE IF ~DecimalLeq(DivMillion(number.digits), MaxTimestampSeconds)
    THEN {Returned(Err("Couldn't parse the timestamp"))}
    ELSE {Returned(Ok(Timestamp(number.negative /\ DivMillion(number.digits) # <<"0">>,
                                DivMillion(number.digits),
                                ModMillion(number.digits) * 1000)))}

\* deserialize_datetime_utc_from_microseconds: the ways it can end
deserialize_datetime_utc_from_microseconds(value) ==
    IF ~deserialize_number_from_string(value).some
    THEN {Returned(Err("Deserialization"))}
    ELSE timestamp_of(deserialize_number_from_string(value).v)

\* the runs converted
Wave == <<"w", "a", "v", "e">>
Runs ==
    {LocalizedRun_Text(t) : t \in {<< >>, Hi, <<":">>, <<":">> \o Wave \o <<":">>}}
        \cup {LocalizedRun_Emoji(l, c) :
                 l \in {Nothing, Some(<< >>), Some(Wave), Some(<<"é">>)},
                 c \in {Nothing, Some(TRUE), Some(FALSE)}}

\* the texts of the timestamps converted: microseconds at and around whole
\* seconds, the ends of the range of i64, negative numbers, and texts that
\* are no number
TimestampTexts ==
    {<<"0">>,
     <<"1">>,
     <<"9", "9", "9">>,
     <<"1", "0", "0", "0">>,
     <<"1", "0", "0", "1">>,
     <<"1", "2", "3", "4", "5", "6">>,
     <<"5", "0", "0", "0", "0", "0">>,
     <<"9", "9", "9", "0", "0", "0">>,
     <<"9", "9", "9", "9", "9", "8">>,
     <<"9", "9", "9", "9", "9", "9">>,
     <<"1", "0", "0", "0", "0", "0", "0">>,
     <<"1", "0", "0", "0", "0", "0", "1">>,
     <<"1", "0", "0", "0", "9", "9", "9">>,
     <<"1", "0", "0", "1", "0", "0", "0">>,
     <<"1", "0", "0", "1", "0", "0", "1">>,
     <<"1", "1", "2", "3", "4", "5", "6">>,
     <<"1", "5", "0", "0", "0", "0", "0">>,
     <<"1", "9", "9", "9", "0", "0", "0">>,
     <<"1", "9", "9", "9", "9", "9", "8">>,
     <<"1", "9", "9", "9", "9", "9", "9">>,
     <<"1", "7", "0", "0", "0", "0", "0", "0", "0", "0", "0", "0", "0", "0", "0", "0">>,
     <<"1", "7", "0", "0", "0", "0", "0", "0", "0", "0", "0", "0", "0", "0", "0", "1">>,
     <<"1", "7", "0", "0", "0", "0", "0", "0", "0", "0", "0", "0", "0", "9", "9", "9">>,
     <<"1", "7", "0", "0", "0", "0", "0", "0", "0", "0", "0", "0", "1", "0", "0", "0">>,
     <<"1", "7", "0", "0", "0", "0", "0", "0", "0", "0", "0", "0", "1", "0", "0", "1">>,
     <<"1", "7", "0", "0", "0", "0", "0", "0", "0", "0", "1", "2", "3", "4", "5", "6">>,
     <<"1", "7", "0", "0", "0", "0", "0", "0", "0", "0", "5", "0", "0", "0", "0", "0">>,
     <<"1", "7", "0", "0", "0", "0", "0", "0", "0", "0", "9", "9", "9", "0", "0", "0">>,
     <<"1", "7", "0", "0", "0", "0", "0", "0", "0", "0", "9", "9", "9", "9", "9", "8">>,
     <<"1", "7", "0", "0", "0", "0", "0", "0", "0", "0", "9", "9", "9", "9", "9", "9">>,
     <<"8", "2", "1", "0", "2", "6", "6", "8", "7", "6", "7", "9", "9", "0", "0", "0", "0", "0", "0">>,
     <<"8", "2", "1", "0", "2", "6", "6", "8", "7", "6", "7", "9", "9", "0", "0", "0", "0", "0", "1">>,
     <<"8", "2", "1", "0", "2", "6", "6", "8", "7", "6", "7", "9", "9", "0", "0", "0", "9", "9", "9">>,
     <<"8", "2", "1", "0", "2", "6", "6", "8", "7", "6", "7", "9", "9", "0", "0", "1", "0", "0", "0">>,
     <<"8", "2", "1", "0", "2", "6", "6", "8", "7", "6", "7", "9", "9", "0", "0", "1", "0", "0", "1">>,
     <<"8", "2", "1", "0", "2", "6", "6", "8", "7", "6", "7", "9", "9", "1", "2", "3", "4", "5", "6">>,
     <<"8", "2", "1", "0", "2", "6", "6", "8", "7", "6", "7", "9", "9", "5", "0", "0", "0", "0", "0">>,
     <<"8", "2", "1", "0", "2", "6", "6", "8", "7", "6", "7", "9", "9", "9", "9", "9", "0", "0", "0">>,
     <<"8", "2", "1", "0", "2", "6", "6", "8", "7", "6", "7", "9", "9", "9", "9", "9", "9", "9", "8">>,
     <<"8", "2", "1", "0", "2", "6", "6", "8", "7", "6", "7", "9", "9", "9", "9", "9", "9", "9", "9">>,
     <<"1", "7", "0", "5", "3", "1", "2", "8", "0", "0", "0", "0", "0", "0", "0", "0">>,
     <<"1", "7", "0", "5", "3", "1", "2", "8", "0", "0", "0", "0", "0", "0", "0", "1">>,
     <<"1", "7", "0", "5", "3", "1", "2", "8", "0", "0", "0", "0", "0", "9", "9", "9">>,
     <<"1", "7", "0", "5", "3", "1", "2", "8", "0", "0", "0", "0", "1", "0", "0", "0">>,
     <<"1", "7", "0", "5", "3", "1", "2", "8", "0", "0", "0", "0", "1", "0", "0", "1">>,
     <<"1", "7", "0", "5", "3", "1", "2", "8", "0", "0", "1", "2", "3", "4", "5", "6">>,
     <<"1", "7", "0", "5", "3", "1", "2", "8", "0", "0", "5", "0", "0", "0", "0", "0">>,
     <<"1", "7", "0", "5", "3", "1", "2", "8", "0", "0", "9", "9", "9", "0", "0", "0">>,
     <<"1", "7", "0", "5", "3", "1", "2", "8", "0", "0", "9", "9", "9", "9", "9", "8">>,
     <<"1", "7", "0", "5", "3", "1", "2", "8", "0", "0", "9", "9", "9", "9", "9", "9">>,
     <<"9", "2", "2", "3", "3", "7", "2", "0", "3", "6", "8", "5", "4", "7", "7", "5", "8", "0", "7">>,
     <<"9", "2", "2", "3", "3", "7", "2", "0", "3", "6", "8", "5", "4", "7", "7", "5", "8", "0", "8">>,
     <<"1", "8", "4", "4", "6", "7", "4", "4", "0", "7", "3", "7", "0", "9", "5", "5", "1", "6", "1", "5">>,
     <<"-", "1">>,
     <<"-", "1", "0", "0", "0", "0", "0", "0">>,
     <<"-", "1", "0", "0", "0", "0", "0", "1">>,
     <<>>,
     <<"a", "b", "c">>,
     <<"1", ".", "5">>,
     <<" ", "5">>,
     <<"+", "5">>,
     <<"0", "0", "7">>,
     <<"1", "7", "0", "5", "3", "1", "2", "8", "0", "0", "0", "0", "0", "0", "0", "0", " ">>}

\* a JSON number is written without a sign other than "-", without leading
\* zeros and without spaces
IsJsonInteger(text) ==
    LET digits == IF text # << >> /\ Head(text) = "-" THEN Tail(text) ELSE text
    IN  /\ digits # << >>
        /\ \A k \in 1..Len(digits) : IsDigit(digits[k])
        /\ Len(digits) > 1 => Head(digits) # "0"

TimestampValues ==
    {StringValue(t) : t \in TimestampTexts}
        \cup {NumberValue(t) : t \in {u \in TimestampTexts : IsJsonInteger(u)}}

TypesInit ==
    /\ YouTubeIdle
    /\ multicast = Multicast_new
    /\ twitch = Chat_new
    /\ lookup = NoLookup
    /\ ExtrasIdle

typesframe == <<youtube, multicast, twitch, lookup, processor, requests, classified>>

\* a caller flattens a run of a message
ToChatString ==
    /\ applied.fn = "none"
    /\ \E run \in Runs :
        applied' = [fn |-> "to_chat_string", arg |-> run, out |-> to_chat_string(run)]
    /\ UNCHANGED typesframe

\* serde deserializes the timestamp_usec of a MessageRendererBase
DeserializeTimestamp ==
    /\ applied.fn = "none"
    /\ \E value \in TimestampValues :
        \E out \in deserialize_datetime_utc_from_microseconds(value) :
            applied' = [fn |-> "deserialize_datetime_utc_from_microseconds", arg |-> value,
                        out |-> out]
    /\ UNCHANGED typesframe

TypesNext == ToChatString \/ DeserializeTimestamp

TypesSpec == TypesInit /\ [][TypesNext]_vars

(***************************************************************************)
(* Claims about the values of a chat page, over the last conversion.       *)
(***************************************************************************)
Flattened == applied.fn = "to_chat_string"
TheRun == applied.arg

C28_WitnessCustom ==
    /\ Flattened
    /\ TheRun = LocalizedRun_Emoji(Some(Wave), Some(TRUE))
    /\ applied.out = Returned(<<":", "w", "a", "v", "e", ":">>)

Converted == applied.fn = "deserialize_datetime_utc_from_microseconds"
TheValue == applied.arg

\* the value is a non-negative number, or a string of decimal digits
NonNegative == Converted /\ TheValue.text # << >> /\ \A k \in 1..Len(TheValue.text) : IsDigit(TheValue.text[k])

\* the six decimal digits of a number below 1,000,000
RECURSIVE SixDigits(_, _)
SixDigits(n, k) == IF k = 0 THEN << >> ELSE SixDigits(n \div 10, k - 1) \o <<DigitChars[(n % 10) + 1]>>

\* the conversion gave t div 1,000,000 whole seconds and t mod 1,000,000
\* microseconds: seconds * 1,000,000 + microseconds is t again
ExactTimestamp ==
    /\ ~applied.out.panicked
    /\ applied.out.result.ok
    /\ LET ts == applied.out.result.v
       IN  /\ ~ts.negative
           /\ ts.nanos % 1000 = 0
           /\ ts.nanos \div 1000 < 1000000
           /\ StripZeros(ts.seconds \o SixDigits(ts.nanos \div 1000, 6)) = StripZeros(TheValue.text)

InTimestampRange == DecimalLeq(DivMillion(StripZeros(TheValue.text)), MaxTimestampSeconds)

MaxRequests == 2

\* the length of a zx
ZxLen == 11

\* CHARSET of gen_zx
CHARSET ==
    <<"a", "b", "c", "d", "e", "f", "g", "h", "i", "j", "k", "l", "m", "n", "o", "p", "q", "r",
      "s", "t", "u", "v", "w", "x", "y", "z", "0", "1", "2", "3", "4", "5", "6", "7", "8", "9">>

\* gen_zx that takes one character less
gen_zx_short(draws) == [k \in 1..(ZxLen - 1) |-> CHARSET[draws[k] + 1]]

\* SignalerChannelInner::gen_zx, given what rng.gen_range(0..CHARSET.len())
\* returns each time it is called
gen_zx(draws) == [k \in 1..ZxLen |-> CHARSET[draws[k] + 1]]

\* what the generator may return in the calls of one gen_zx: every index
\* from some index on, around the charset, or one index every time
Draws ==
    {[k \in 1..ZxLen |-> (w + k) % Len(CHARSET)] : w \in {2 * v : v \in 0..17}}
        \cup {[k \in 1..ZxLen |-> i] : i \in {0, Len(CHARSET) - 1}}

\* a session that has a gsessionid and a sid
OpenSession == [with_topic("t1") EXCEPT !.gsessionid = "g1", !.sid = "s1"]

\* the query of the POST of init_session and of the GET of
\* get_session_stream: the parameters taken from the session, and the zx
init_session_query(s, draws) ==
    [request |-> init_session_begin(s).req, zx |-> gen_zx(draws), draws |-> draws]
get_session_stream_query(s, draws) ==
    [request |-> get_session_stream(s).req, zx |-> gen_zx(draws), draws |-> draws]

ZxInit ==
    /\ YouTubeIdle
    /\ multicast = Multicast_new
    /\ twitch = Chat_new
    /\ lookup = NoLookup
    /\ ExtrasIdle

zxframe == <<youtube, multicast, twitch, lookup, processor, applied, classified>>

\* init_session builds its POST
BuildInitSession ==
    /\ Len(requests) < MaxRequests
    /\ \E draws \in Draws : requests' = Append(requests, init_session_query(OpenSession, draws))
    /\ UNCHANGED zxframe

\* get_session_stream builds its GET
BuildGetSessionStream ==
    /\ Len(requests) < MaxRequests
    /\ \E draws \in Draws :
        requests' = Append(requests, get_session_stream_query(OpenSession, draws))
    /\ UNCHANGED zxframe

ZxNext == BuildInitSession \/ BuildGetSessionStream

ZxSpec == ZxInit /\ [][ZxNext]_vars

(***************************************************************************)
(* Claims about the zx parameter, over the requests built.                 *)
(***************************************************************************)
\* the characters [a-z0-9]
LowerAlnum ==
    {"a", "b", "c", "d", "e", "f", "g", "h", "i", "j", "k", "l", "m", "n", "o", "p", "q", "r",
     "s", "t", "u", "v", "w", "x", "y", "z"} \cup Digits

\* C29: every signaling request that carries a zx parameter (the
\* init-session POST and the hanging GET) carries a value of exactly 11
\* characters, each in [a-z0-9], generated anew for that request: it is
\* made of what the generator returned while this request was built.
C29_ZxWellFormed ==
    \A i \in 1..Len(requests) :
        /\ requests[i].request.kind \in {"init_session", "subscribe"}
        /\ Len(requests[i].zx) = 11
        /\ \A k \in 1..Len(requests[i].zx) : requests[i].zx[k] \in LowerAlnum
        /\ \A k \in 1..Len(requests[i].zx) : requests[i].zx[k] = CHARSET[requests[i].draws[k] + 1]

\* a POST and a GET after it that carry different values
C29_Witness ==
    /\ Len(requests) = 2
    /\ requests[1].request.kind = "init_session"
    /\ requests[2].request.kind = "subscribe"
    /\ requests[1].zx = <<"d", "e", "f", "g", "h", "i", "j", "k", "l", "m", "n">>
    /\ requests[2].zx = <<"9", "9", "9", "9", "9", "9", "9", "9", "9", "9", "9">>

(***************************************************************************)
(* youtube::Error (src/src/youtube/error.rs): the conversion of a          *)
(* reqwest::Error, which every `?` on a request applies, and is_fatal.     *)
(* reqwest is a dependency: of its Error the code sees is_timeout(),       *)
(* is_status() and status(), and the three are inputs here.  An error is   *)
(* of one kind, a Status error carries its code, and is_timeout() looks at *)
(* the chain of sources, so nothing in the type keeps an error of any kind *)
(* from being a timeout too.                                               *)
(***************************************************************************)
ReqwestKinds == {"Builder", "Request", "Redirect", "Status", "Body", "Decode", "Upgrade"}

\* the codes Response::error_for_status turns into an error
StatusCodes == (400..431) \cup (500..511)

ReqwestError(kind, timeout) == [kind |-> kind, timeout |-> timeout]
ReqwestStatusError(code, timeout) == [kind |-> "Status", code |-> code, timeout |-> timeout]

ReqwestErrors ==
    {ReqwestError(k, t) : k \in ReqwestKinds \ {"Status"}, t \in BOOLEAN}
        \cup {ReqwestStatusError(c, t) : c \in StatusCodes, t \in BOOLEAN}

is_timeout(value) == value.timeout
is_status(value) == value.kind = "Status"
status(value) == IF value.kind = "Status" THEN Some(value.code) ELSE Nothing

\* the variants of youtube::Error
Error_Unit(tag) == [tag |-> tag]
Error_Of(tag, v) == [tag |-> tag, v |-> v]
Error_TimedOut == Error_Unit("TimedOut")
Error_BadStatus(code) == [tag |-> "BadStatus", status |-> code]
Error_GeneralRequest(value) == [tag |-> "GeneralRequest", source |-> value]

\* one value of every variant, BadStatus with every code
Errors ==
    {Error_Of(t, <<"x">>) : t \in {"InvalidVideoID", "InvalidChannelID", "NoMatchingStream", "NotStream"}}
        \cup {Error_Of(t, <<"e">>) : t \in {"Deserialization", "URLParseError"}}
        \cup {Error_Unit(t) : t \in {"MissingInitialData", "MissingContinuationContents",
                                     "EndOfContinuation", "NoInnerTubeKey", "NoChatContinuation"}}
        \cup {Error_TimedOut}
        \cup {Error_BadStatus(c) : c \in StatusCodes}
        \cup {Error_GeneralRequest(e) : e \in {ReqwestError("Request", FALSE), ReqwestError("Body", FALSE)}}

\* is_fatal that takes a bad status for transient too
is_fatal_bad_status_transient(e) == e.tag \notin {"TimedOut", "BadStatus"}

\* Error::is_fatal
is_fatal(e) == e.tag # "TimedOut"

\* impl From<reqwest::Error> for Error
Error_from(value) ==
    IF is_timeout(value) THEN Returned(Error_TimedOut)
    ELSE IF is_status(value)
    THEN IF status(value).some THEN Returned(Error_BadStatus(status(value).v)) ELSE Panicked
    ELSE Returned(Error_GeneralRequest(value))

ErrorInit ==
    /\ YouTubeIdle
    /\ multicast = Multicast_new
    /\ twitch = Chat_new
    /\ lookup = NoLookup
    /\ ExtrasIdle

errorframe == <<youtube, multicast, twitch, lookup, processor, applied, requests>>

\* a request fails and `?` converts its error
ErrorFrom ==
    /\ classified.pc = "none"
    /\ \E value \in ReqwestErrors :
        classified' = [pc |-> "converted", converted |-> TRUE, value |-> value,
                       outcome |-> Error_from(value)]
    /\ UNCHANGED errorframe

\* a caller asks is_fatal of the error it was handed: one that was
\* converted, or one of any other variant
ErrorIsFatal ==
    /\ \/ /\ classified.pc = "converted"
          /\ ~classified.outcome.panicked
          /\ classified' = [pc |-> "judged", converted |-> TRUE, value |-> classified.value,
                            error |-> classified.outcome.result,
                            fatal |-> is_fatal(classified.outcome.result)]
       \/ /\ classified.pc = "none"
          /\ \E e \in Errors :
                classified' = [pc |-> "judged", converted |-> FALSE, error |-> e,
                               fatal |-> is_fatal(e)]
    /\ UNCHANGED errorframe

ErrorNext == ErrorFrom \/ ErrorIsFatal

ErrorSpec == ErrorInit /\ [][ErrorNext]_vars

(***************************************************************************)
(* Claims about the error kinds (ErrorSpec).                               *)
(***************************************************************************)
WasConverted == classified.pc \in {"converted", "judged"} /\ classified.converted
WasJudged == classified.pc = "judged"
TheError == IF classified.pc = "judged" THEN classified.error ELSE classified.outcome.result

\* C31: transport errors are classified in the order timeout, bad status,
\* other: an error that is a timeout becomes TimedOut even if it also
\* carries a status, a status error becomes BadStatus (with that status),
\* anything else GeneralRequest; TimedOut is the only error kind for which
\* is_fatal is false, every other kind (BadStatus for any status code
\* included) is fatal.
C31_TimeoutStatusOther ==
    /\ WasConverted =>
        /\ classified.pc = "converted" => ~classified.outcome.panicked
        /\ IF classified.value.timeout
           THEN TheError.tag = "TimedOut"
           ELSE IF classified.value.kind = "Status"
           THEN TheError.tag = "BadStatus" /\ TheError.status = classified.value.code
           ELSE TheError.tag = "GeneralRequest" /\ TheError.source = classified.value
    /\ WasJudged => (classified.fatal <=> classified.error.tag # "TimedOut")

\* a timeout that carries the status 504 was converted and found transient
C31_Witness ==
    /\ WasJudged
    /\ classified.converted
    /\ classified.value = ReqwestStatusError(504, TRUE)
    /\ classified.error = Error_TimedOut
    /\ ~classified.fatal

\* a bad status that is no timeout was converted and found fatal
C31_WitnessBadStatus ==
    /\ WasJudged
    /\ classified.converted
    /\ classified.value = ReqwestStatusError(429, FALSE)
    /\ classified.error = Error_BadStatus(429)
    /\ classified.fatal

(***************************************************************************)
(* The rotations of the subscriber task next to the stream's calls of      *)
(* refresh_topic (Spec).                                                   *)
(***************************************************************************)
\* the hanging GET has been requested or is open
HangingGet == http.kind \in {"subscribe", "stream"}

\* refresh_topic has been called and waits for the mutex
RefreshWaiting == opc = "refresh" /\ lock # "free"

\* C32: each rotation's handshake is atomic with respect to other users of
\* the signaling state: the gsessionid and sid carried by a hanging GET are
\* the ones stored by the choose-server and init-session of the same
\* rotation, and both of those requests used the same topic, even when
\* refresh_topic is called concurrently at any point.
C32_HandshakeAtomic ==
    /\ HangingGet =>
        /\ http.gsessionid = rotation.gsessionid
        /\ http.SID = rotation.sid
        /\ rotation.init_gsessionid = rotation.gsessionid
        /\ rotation.choose_topic = rotation.init_topic
    /\ http.kind = "init_session" /\ taskpc = "init" =>
        /\ http.gsessionid = rotation.gsessionid
        /\ http.topic = rotation.choose_topic

\* the hanging GET of a rotation is requested while a refresh_topic with
\* another topic waits for the mutex
C32_Witness ==
    /\ taskpc = "subscribe"
    /\ http.kind = "subscribe"
    /\ RefreshWaiting
    /\ next_topic # inner.topic
    /\ rotation.choose_topic = inner.topic
    /\ rotation.init_topic = inner.topic

\* the step in which the stream's call of refresh_topic runs
RefreshTopicStep == opc = "refresh" /\ opc' = "waiting"

\* the step in which the task resets the state and sends choose-server
ResetStep == taskpc = "rotate" /\ taskpc' = "choose"

\* the step in which the task sends init-session
InitSessionStep == taskpc = "choose" /\ taskpc' = "init"

SameBut_topic(s, t) ==
    /\ s.gsessionid = t.gsessionid
    /\ s.sid = t.sid
    /\ s.rid = t.rid
    /\ s.aid = t.aid
    /\ s.session_n = t.session_n

\* C33: refresh_topic changes only topic (gsessionid, sid, rid, aid and
\* session_n are unchanged) and reset() leaves topic unchanged; a topic set
\* by refresh_topic does not affect the hanging GET already open and is the
\* topic sent by choose-server and init-session of the next rotation.
C33_TopicOnlyForNextRotation ==
    [][/\ RefreshTopicStep =>
            /\ inner'.topic = next_topic
            /\ SameBut_topic(inner', inner)
            /\ http' = http
            /\ taskpc' = taskpc
       /\ ResetStep =>
            /\ inner'.topic = inner.topic
            /\ http' = [kind |-> "choose_server", topic |-> inner.topic]
       /\ InitSessionStep =>
            /\ inner'.topic = inner.topic
            /\ http'.kind = "init_session"
            /\ http'.topic = inner.topic
            /\ http'.topic = http.topic]_vars

\* a rotation sends to choose-server and to init-session another topic than
\* the rotation before it: the one refresh_topic set while the hanging GET
\* of that rotation was open
C33_Witness ==
    /\ taskpc = "init"
    /\ http.kind = "init_session"
    /\ rotation.after_refresh
    /\ rotation.init_topic = rotation.choose_topic
    /\ http.topic = rotation.choose_topic
    /\ inner.topic = rotation.choose_topic

(***************************************************************************)
(* The notifications of the subscriber task (Spec).                        *)
(***************************************************************************)
\* the step in which the task handles one chunk of the hanging GET
ChunkStep == taskpc = "reading" /\ taskpc' # "rotate" /\ last'.op = "chunk"

\* the step in which the hanging GET ends, by EOF or by a read error
EndStep == taskpc = "reading" /\ taskpc' = "rotate"

\* C34: the signaling task sends one notification at the start of every
\* rotation, before resetting the state and without any chunk having
\* arrived: a consumer is notified once when the task starts and once after
\* each end of the hanging GET (and by nothing else but a chunk), so it
\* polls the chat RPC again across every reconnect.
C34_NotifiedAtEveryRotation ==
    [][/\ (ResetStep /\ receiver = "alive") =>
            /\ pending' = pending + 1
            /\ last'.sent = 1
            /\ last'.pre = inner
            /\ http = NoReq
            /\ sinceEnd = << >>
       /\ EndStep => (taskpc' = "rotate" /\ sinceEnd' = << >> /\ pending' = pending)
       /\ pending' > pending => (ResetStep \/ ChunkStep)
       /\ (taskpc = "unspawned" /\ taskpc' # "unspawned") =>
            (taskpc' = "rotate" /\ receiver' = "alive" /\ sinceEnd' = << >>)]_vars

\* the hanging GET ended by EOF, the stream had taken every notification
\* before it, and the next rotation has started by queueing one
C34_Witness ==
    /\ ended = "eof"
    /\ last.by = "task"
    /\ last.op = "reset"
    /\ last.sent = 1
    /\ last.pre.aid = 0
    /\ sinceEnd = <<"reset">>
    /\ pending = 1
    /\ receiver = "alive"
    /\ opc = "waiting"

(***************************************************************************)
(* The counters of the session in the requests (Spec).                     *)
(***************************************************************************)
\* C35: rid is 0 in every reachable state of the signaling session (no
\* operation increments it), and aid is 0 whenever a request is sent: every
\* init-session POST carries RID=0 and AID=0 and every hanging GET carries
\* AID=0, because a reset precedes each handshake and aid only changes while
\* chunks are being read.
C35_RidAndAidZeroInRequests ==
    /\ inner.rid = 0
    /\ InFlight => inner.aid = 0
    /\ http.kind = "init_session" => (http.RID = 0 /\ http.AID = 0)
    /\ HangingGet => http.AID = 0
    /\ inner.aid # 0 => (taskpc \in {"reading", "rotate", "done", "panicked"} /\ ~InFlight)

\* the hanging GET of a rotation is requested with AID=0 after the session
\* before it had acknowledged a chunk
C35_Witness ==
    /\ taskpc = "subscribe"
    /\ http.kind = "subscribe"
    /\ http.AID = 0
    /\ rotation.after_ack

(***************************************************************************)
(* Claims about the Multicast over all its polls (MulticastSpec).          *)
(***************************************************************************)
\* the last pass came as far as index j: no sub-stream before j had an item
Reached(j) == \A i \in 1..(j - 1) : WouldReturn(i).poll # "ReadySome"

\* C36: the Multicast never removes a sub-stream: a sub-stream that has
\* reported end-of-stream stays in the list and is polled again in every
\* later pass that reaches its index, so the result of a pass depends on
\* what a terminated sub-stream returns when polled after termination (its
\* item is returned when no sub-stream before it has one, and its pending
\* makes a pass without an item pending).
C36_TerminatedStillPolled ==
    /\ Len(multicast.streams) = Len(multicast.pushed)
    /\ \A i \in 1..Len(multicast.streams) :
           multicast.streams[i].kind = multicast.pushed[i].kind
    /\ HasPolled =>
        \A j \in multicast.ended_before :
            /\ j \in 1..Len(multicast.streams)
            /\ Reached(j) =>
                /\ Len(multicast.polled) >= j
                /\ multicast.polled[j] = j
                /\ PolledOnce(j)
                /\ WouldReturn(j).poll = "ReadySome" =>
                    /\ multicast.res.poll = "ReadySome"
                    /\ multicast.res.item.v.v = WouldReturn(j).item.v
                    /\ Len(multicast.polled) = j
                /\ (WouldReturn(j).poll = "Pending" /\ ReadyIndexes = {}) =>
                    multicast.res.poll = "Pending"

\* the first sub-stream reported end-of-stream in the first pass, which was
\* pending on the second; polled again in the second pass it hands an item,
\* and the pass returns it
C36_Witness ==
    /\ multicast.polls = 2
    /\ Len(multicast.pushed) = 2
    /\ multicast.pushed[1].x = <<ReadyNone, ReadySome(Ok("c3"))>>
    /\ multicast.pushed[2].x = <<PollPending>>
    /\ multicast.ended_before = {1}
    /\ multicast.polled = <<1>>
    /\ multicast.res.poll = "ReadySome"
    /\ multicast.res.item.v.v = "c3"

\* the items among what a sub-stream's polls returned, in order
ItemsOf(script) ==
    LET r == SelectSeq(script, LAMBDA e : e.poll = "ReadySome")
    IN [n \in 1..Len(r) |-> r[n].item]

\* what the polls of sub-stream i have returned so far
Consumed(i) ==
    SubSeq(multicast.pushed[i].x, 1,
           Len(multicast.pushed[i].x) - Len(multicast.streams[i].x))

\* the items the consumer got from sub-stream i, in the order it got them
ReturnedFrom(i) ==
    LET at == SelectSeq([n \in 1..Len(multicast.returned) |-> n],
                        LAMBDA n : multicast.handed[n].from = i)
    IN [k \in 1..Len(at) |-> multicast.returned[at[k]]]

\* an item of the consumer is this item of a sub-stream, in its tag
Wraps(returned, item) == returned.ok = item.ok /\ returned.v.v = item.v

\* C37: every item a sub-stream hands to the Multicast is returned to the
\* consumer exactly once (never dropped, never duplicated), and items of the
\* same sub-stream are returned in the order that sub-stream yielded them,
\* for every interleaving of readiness across sub-streams.
C37_EveryItemOnceInOrder ==
    /\ Len(multicast.returned) = Len(multicast.handed)
    /\ \A n \in 1..Len(multicast.returned) :
           Wraps(multicast.returned[n], multicast.handed[n].item)
    /\ \A i \in 1..Len(multicast.pushed) :
        /\ multicast.pushed[i].x = Consumed(i) \o multicast.streams[i].x
        /\ Len(ReturnedFrom(i)) = Len(ItemsOf(Consumed(i)))
        /\ \A k \in 1..Len(ReturnedFrom(i)) :
               Wraps(ReturnedFrom(i)[k], ItemsOf(Consumed(i))[k])

\* two sub-streams whose items became ready in turn: the consumer has got
\* the first item of the second, the item of the first, then the second item
\* of the second
C37_Witness ==
    /\ multicast.polls = 3
    /\ Len(multicast.pushed) = 2
    /\ multicast.pushed[1].x = <<PollPending, ReadySome(Ok("c2"))>>
    /\ multicast.pushed[2].x = <<ReadySome(Ok("c1")), ReadySome(Ok("c2"))>>
    /\ Len(multicast.returned) = 3
    /\ multicast.returned[1].v.v = "c1"
    /\ multicast.returned[2].v.v = "c2"
    /\ multicast.returned[3].v.v = "c2"
    /\ multicast.handed[1].from = 2
    /\ multicast.handed[2].from = 1
    /\ multicast.handed[3].from = 2

\* sub-stream i had an item at every poll made so far: as many first polls
\* of it as there were polls of the Multicast return an item
ReadyOnEveryPoll(i) ==
    /\ multicast.polls <= Len(multicast.pushed[i].x)
    /\ \A n \in 1..multicast.polls : multicast.pushed[i].x[n].poll = "ReadySome"

\* C38: every Multicast pass restarts at the first sub-stream (there is no
\* rotating cursor), so delivery is not fair: while a lower-index sub-stream
\* is ready with an item on every poll, an item that is ready on a
\* higher-index sub-stream is never delivered (that sub-stream is not even
\* polled).
C38_LowerIndexStarvesHigher ==
    HasPolled =>
        /\ multicast.polled # << >> => multicast.polled[1] = 1
        /\ \A i \in 1..Len(multicast.pushed) :
            ReadyOnEveryPoll(i) =>
                \A j \in (i + 1)..Len(multicast.pushed) :
                    /\ multicast.streams[j] = multicast.pushed[j]
                    /\ \A n \in 1..Len(multicast.handed) : multicast.handed[n].from # j
                    /\ j \notin {multicast.polled[q] : q \in 1..Len(multicast.polled)}

\* the first sub-stream had an item at each of three polls and the consumer
\* got those three; the item that was ready on the second all the time is
\* still there
C38_Witness ==
    /\ multicast.polls = 3
    /\ Len(multicast.pushed) = 2
    /\ multicast.pushed[1].x = <<ReadySome(Ok("c1")), ReadySome(Ok("c2")), ReadySome(Ok("c3"))>>
    /\ multicast.pushed[2].x = <<ReadySome(Ok("c1"))>>
    /\ multicast.streams[2].x = <<ReadySome(Ok("c1"))>>
    /\ Len(multicast.returned) = 3
    /\ \A n \in 1..3 : multicast.handed[n].from = 1

====
